---- MODULE Spec2Model ----
(***************************************************************************)
(* gitrw: history traversal and rewrite of a bare Git repository.          *)
(*                                                                         *)
(* Object identifiers are modelled as an ideal (injective) content hash:   *)
(* the OID of an object IS its parsed payload, so two objects have the     *)
(* same OID exactly when their payloads are equal, and re-hashing an       *)
(* unchanged payload yields the original OID.  A commit payload is the     *)
(* record of the fields CommitBase::create extracts:                       *)
(*   tree, parents, author, author_time, committer, committer_time,        *)
(*   remainder.                                                            *)
(***************************************************************************)
EXTENDS Integers, Sequences, FiniteSets, TLC

VARIABLES
    objects,            \* commit objects of the repository (packs + loose)
    refs,               \* GitRef::read_all result used to seed the iterator
    commits,            \* CommitsFifoIter.commits (the stack, top = last)
    processed_commits,  \* CommitsFifoIter.processed_commits
    parents_seen,       \* CommitsFifoIter.parents_seen
    emitted,            \* the commits returned by next(), in order
    mappings,           \* contributors.rs: old identity -> new identity
    rewritten_commits,  \* old commit OID -> new commit OID
    commit_trees,       \* prune.rs: final commit OID -> tree OID
    skipped,            \* prune.rs: commits taken through the `continue` branch
    written,            \* commit objects handed to Repository::write / tx.send
    patterns,           \* remove.rs: the file, directory and regex patterns
    rewritten_trees,    \* remove.rs: tree OID -> Option<new tree OID>
    written_trees,      \* remove.rs: tree objects handed to write_tree
    pending,            \* remove.rs: OrderedCommits taken by a worker, not yet sent
    next_index,         \* remove.rs: the index enumerate() gives the next commit
    chan,               \* remove.rs: the OrderedCommit channel (tx -> rx)
    heap,               \* remove.rs: the orderer's BinaryHeap
    commit_index,       \* remove.rs: the index the orderer waits for
    finalized,          \* remove.rs: the commits update_commit was called on, in order
    loose_refs,         \* refs.rs: the loose ref files before the update, in read_dir order
    packed_refs,        \* refs.rs: the entries of the packed-refs file
    ref_files,          \* refs.rs: the loose ref files on disk, name -> content
    ref_dirs,           \* refs.rs: the directories on disk below the repository
    ref_index,          \* refs.rs: the position of the loop of update in the refs
    dry_run,            \* the --dry-run flag of the run
    wchan,              \* the WriteObject channel (tx -> Repository::write_commits)
    writers,            \* the threads of write_commits: what each is doing
    object_files,       \* the loose object files on disk, OID -> content
    map_file,           \* object-id-map.old-new.txt: <<>> or <<its content>>
    delta_base,         \* packreader.rs: the content of the base object of a delta chain
    delta_chain,        \* packreader.rs: the OFS_DELTA objects above the base, bottom first
    pack_diff,          \* packreader.rs: restore_diff_object_bytes' pack_diff
    chain_index,        \* packreader.rs: the delta of the chain pack_object stands at
    content,            \* packreader.rs: the bytes restore_diff_object_bytes returns
    pack,               \* packreader.rs: the entries of a pack file, the base object first
    read_result,        \* packreader.rs: what read_git_object_bytes returned
    idx,                \* idx_reader.rs: the offset slots and the large-offset table of an idx file
    target_endian,      \* idx_reader.rs: cfg!(target_endian) of the build
    pack_offsets,       \* idx_reader.rs: the Vec<PackOffset> get_pack_offsets returns (result)
    commit_bytes,       \* commit.rs: the payload of the commit being parsed
    editable,           \* commit.rs: the CommitEditable made of the payload
    out_bytes,          \* commit.rs: what to_bytes returned
    match_path,         \* remove.rs: the path (with trailing slash) given to the predicates
    match_name,         \* remove.rs: the file name given to the file predicate
    match_result,       \* remove.rs: what the predicates returned
    command,            \* the subcommand being run
    pc                  \* position of the pipeline's main thread

vars == <<objects, refs, commits, processed_commits, parents_seen, emitted,
          mappings, rewritten_commits, commit_trees, skipped, written,
          patterns, rewritten_trees, written_trees, pending, next_index, chan,
          heap, commit_index, finalized, loose_refs, packed_refs, ref_files,
          ref_dirs, ref_index, dry_run, wchan, writers, object_files, map_file,
          delta_base, delta_chain, pack_diff, chain_index, content, pack, read_result,
          idx, target_endian, pack_offsets,
          commit_bytes, editable, out_bytes, match_path, match_name, match_result,
          command, pc>>

removeVars == <<patterns, rewritten_trees, written_trees, pending, next_index,
                chan, heap, commit_index, finalized>>

refVars == <<loose_refs, packed_refs, ref_files, ref_dirs, ref_index>>

runVars == <<dry_run, wchan, writers, object_files, map_file>>

idxVars == <<idx, target_endian, pack_offsets>>

deltaVars == <<delta_base, delta_chain, pack_diff, chain_index, content, pack,
               read_result, idxVars>>

\* no idx file is being read
IdxIdle ==
    /\ idx = [slots |-> <<>>, large |-> <<>>]
    /\ target_endian = "little"
    /\ pack_offsets = <<>>

commitVars == <<commit_bytes, editable, out_bytes>>

matchVars == <<match_path, match_name, match_result>>

pureVars == <<deltaVars, commitVars, matchVars>>

(***************************************************************************)
(* Bounds of the model.                                                    *)
(***************************************************************************)
MaxCommits == 4
MaxRefs == 2
PipeCommits == 3
PruneCommits == 4
MaxRefNames == 2
RemoveCommits == 2
MaxWorkers == 2
MaxWriters == 2

ParentCounts == {0, 1, 2}
Identities == {"alice", "bob", "carol"}
TreeIds == {"t1", "t2"}

(***************************************************************************)
(* Generic helpers.                                                        *)
(***************************************************************************)
Range(s) == {s[i] : i \in 1..Len(s)}

SeqsUpTo(S, n) == UNION {[1..k -> S] : k \in 0..n}

\* HashMap::get(k).unwrap_or(k)
GetOr(map, k) == IF k \in DOMAIN map THEN map[k] ELSE k

\* HashMap::insert(k, v)
Insert(map, k, v) == [x \in (DOMAIN map) \cup {k} |-> IF x = k THEN v ELSE map[x]]

EmptyMap == [x \in {} |-> x]

(***************************************************************************)
(* Commit DAGs.  A shape gives, for commit number i, the numbers of its    *)
(* parents (all smaller than i); the commit object is built bottom-up.     *)
(***************************************************************************)
ParentSeqs(i) ==
    {s \in SeqsUpTo(1..(i - 1), 2) :
        /\ Len(s) \in ParentCounts
        /\ \A a, b \in 1..Len(s) : a # b => s[a] # s[b]}

RECURSIVE Shapes(_)
Shapes(n) ==
    IF n = 0 THEN {<<>>}
    ELSE {Append(sh, ps) : sh \in Shapes(n - 1), ps \in ParentSeqs(n)}

RECURSIVE CommitOf(_, _, _)
CommitOf(sh, at, i) ==
    [tree           |-> at[i].tree,
     parents        |-> [k \in 1..Len(sh[i]) |-> CommitOf(sh, at, sh[i][k])],
     author         |-> at[i].author,
     author_time    |-> at[i].author_time,
     committer      |-> at[i].committer,
     committer_time |-> at[i].committer_time,
     remainder      |-> at[i].remainder]

(***************************************************************************)
(* src/commits.rs: CommitsFifoIter                                         *)
(***************************************************************************)
\* commits.rs:39-44: one seed per ref, in read_all order
Seeds(rs) == [k \in 1..Len(rs) |-> rs[k].hash]

\* commits.rs:72-73: !parents_seen.insert(hash) || parents().is_empty()
EmitNowEager(c, seen) == TRUE
EmitNow(c, seen) == c \in seen \/ c.parents = <<>>

\* a variant that pushes the first parent only
UnprocessedParentsFirst(c, processed) ==
    SelectSeq(SubSeq(c.parents, 1, 1), LAMBDA p : p \notin processed)

\* commits.rs:80-95: the parents not yet processed, pushed in order
UnprocessedParents(c, processed) ==
    SelectSeq(c.parents, LAMBDA p : p \notin processed)

\* commits.rs:68-100: CommitsFifoIter::next; ret is <<c>> for Some(c), <<>> for None
RECURSIVE FifoNext(_, _, _)
FifoNext(stack, processed, seen) ==
    IF stack = <<>>
    THEN [ret |-> <<>>, commits |-> stack, processed |-> processed, seen |-> seen]
    ELSE LET c == stack[Len(stack)]
             rest == SubSeq(stack, 1, Len(stack) - 1)
         IN  IF c \in processed
             THEN FifoNext(rest, processed, seen \ {c})
             ELSE IF EmitNow(c, seen)
                  THEN [ret |-> <<c>>, commits |-> rest,
                        processed |-> processed \cup {c}, seen |-> seen \cup {c}]
                  ELSE FifoNext(rest \o <<c>> \o UnprocessedParents(c, processed),
                                processed, seen \cup {c})

IterResult == FifoNext(commits, processed_commits, parents_seen)

\* the iterator's state after one next() call
IterAdvance(r) ==
    /\ commits' = r.commits
    /\ processed_commits' = r.processed
    /\ parents_seen' = r.seen
    /\ emitted' = emitted \o r.ret

IterInit ==
    /\ commits = Seeds(refs)
    /\ processed_commits = {}
    /\ parents_seen = {}
    /\ emitted = <<>>

(***************************************************************************)
(* Specification of the topological iterator alone.                        *)
(***************************************************************************)
\* all commits differ in their message, as distinct commits of a repository do
TopoAttrs == [j \in 1..MaxCommits |->
                [tree |-> "t1", author |-> "alice", author_time |-> "1 +0000",
                 committer |-> "alice", committer_time |-> "1 +0000",
                 remainder |-> j]]

Repo(sh, at) == {CommitOf(sh, at, i) : i \in DOMAIN sh}

\* the refs of the repository: distinct names, any commit as target (several
\* refs may point at the same commit)
RefNames == <<"refs/heads/a", "refs/heads/b", "refs/heads/c", "refs/tags/d">>

RefsOfLen(objs, n) ==
    {[k \in 1..n |-> [name |-> RefNames[k], hash |-> hs[k]]] : hs \in [1..n -> objs]}

RefSeqs(objs) == UNION {RefsOfLen(objs, n) : n \in 1..MaxRefs}

NoPatterns == [files |-> <<>>, directories |-> <<>>, regexes |-> <<>>]

RemoveIdle ==
    /\ patterns = NoPatterns
    /\ rewritten_trees = EmptyMap
    /\ written_trees = {}
    /\ pending = {}
    /\ next_index = 0
    /\ chan = <<>>
    /\ heap = {}
    /\ commit_index = 0
    /\ finalized = <<>>

RefsIdle ==
    /\ loose_refs = <<>>
    /\ packed_refs = <<>>
    /\ ref_files = EmptyMap
    /\ ref_dirs = {}
    /\ ref_index = 0

\* no writer thread has taken an object
WritersIdle == [w \in 1..MaxWriters |-> [state |-> "idle", obj |-> <<>>]]

RunIdle ==
    /\ dry_run = FALSE
    /\ wchan = <<>>
    /\ writers = WritersIdle
    /\ object_files = EmptyMap
    /\ map_file = <<>>

DeltaIdle ==
    /\ delta_base = <<>>
    /\ delta_chain = <<>>
    /\ pack_diff = <<>>
    /\ chain_index = 0
    /\ content = <<>>
    /\ pack = <<>>
    /\ read_result = <<>>
    /\ IdxIdle

CommitIdle ==
    /\ commit_bytes = <<>>
    /\ editable = <<>>
    /\ out_bytes = <<>>

MatchIdle ==
    /\ match_path = <<>>
    /\ match_name = <<>>
    /\ match_result = <<>>

PureIdle == DeltaIdle /\ CommitIdle /\ MatchIdle

PipelineIdle ==
    /\ RemoveIdle
    /\ RefsIdle
    /\ mappings = EmptyMap
    /\ rewritten_commits = EmptyMap
    /\ commit_trees = EmptyMap
    /\ skipped = {}
    /\ written = {}

InitTopo ==
    /\ \E sh \in Shapes(MaxCommits) : objects = Repo(sh, TopoAttrs)
    /\ refs \in RefSeqs(objects)
    /\ IterInit
    /\ PipelineIdle
    /\ command = "topo"
    /\ pc = "iterate"
    /\ RunIdle
    /\ PureIdle

TopoNext ==
    /\ pc = "iterate"
    /\ LET r == IterResult IN
         /\ IterAdvance(r)
         /\ pc' = IF r.ret = <<>> THEN "done" ELSE "iterate"
    /\ UNCHANGED <<objects, refs, mappings, rewritten_commits, commit_trees,
                   skipped, written, command>>
    /\ UNCHANGED removeVars
    /\ UNCHANGED refVars
    /\ UNCHANGED runVars
    /\ UNCHANGED pureVars

NextTopo == TopoNext

SpecTopo == InitTopo /\ [][NextTopo]_vars

(***************************************************************************)
(* C1: the topological iterator emits parents before children: whenever    *)
(* next() has returned a commit, each of its parents was returned by an    *)
(* earlier next() call.                                                    *)
(***************************************************************************)
ParentsBeforeChildren ==
    \A i \in 1..Len(emitted) :
        \A p \in Range(emitted[i].parents) :
            \E j \in 1..(i - 1) : emitted[j] = p

\* a merge commit whose parents share an ancestor has been returned, from a
\* repository in which two refs point at the same commit
C1_Witness ==
    /\ pc = "done"
    /\ \E a, b \in 1..Len(refs) : a # b /\ refs[a].hash = refs[b].hash
    /\ \E i \in 1..Len(emitted) :
         /\ Len(emitted[i].parents) = 2
         /\ emitted[i].parents[1] \in Range(emitted[i].parents[2].parents)

(***************************************************************************)
(* src/objs/commit.rs: CommitEditable.  An Option is <<>> (None) or <<v>>. *)
(***************************************************************************)
\* commit.rs:131-140
CommitEditable_create(base) ==
    [base |-> base, tree |-> <<>>, author |-> <<>>, committer |-> <<>>,
     parents |-> [i \in 1..Len(base.parents) |-> <<>>]]

\* commit.rs:142-147
has_changes(e) ==
    \/ e.tree # <<>>
    \/ e.author # <<>>
    \/ e.committer # <<>>
    \/ \E i \in 1..Len(e.parents) : e.parents[i] # <<>>

\* commit.rs:149-157
EditableParents(e) ==
    [i \in 1..Len(e.parents) |->
        IF e.parents[i] # <<>> THEN e.parents[i][1] ELSE e.base.parents[i]]

\* commit.rs:171-173
set_tree(e, value) == [e EXCEPT !.tree = <<value>>]

\* commit.rs:175-177
set_parent(e, index, value) == [e EXCEPT !.parents[index] = <<value>>]

\* commit.rs:191-193
set_author(e, author) == [e EXCEPT !.author = <<author>>]

\* commit.rs:208-210
set_committer(e, committer) == [e EXCEPT !.committer = <<committer>>]

\* commit.rs:220-228: the override if present, the base's field otherwise
OverrideOr(opt, base_value) == IF opt # <<>> THEN opt[1] ELSE base_value

\* commit.rs:230-296: the payload written for the edited commit
to_bytes_SwappedTimes(e) ==
    IF ~has_changes(e) THEN e.base
    ELSE [tree           |-> OverrideOr(e.tree, e.base.tree),
          parents        |-> EditableParents(e),
          author         |-> OverrideOr(e.author, e.base.author),
          author_time    |-> e.base.committer_time,
          committer      |-> OverrideOr(e.committer, e.base.committer),
          committer_time |-> e.base.author_time,
          remainder      |-> e.base.remainder]
to_bytes(e) ==
    IF ~has_changes(e) THEN e.base
    ELSE [tree           |-> OverrideOr(e.tree, e.base.tree),
          parents        |-> EditableParents(e),
          author         |-> OverrideOr(e.author, e.base.author),
          author_time    |-> e.base.author_time,
          committer      |-> OverrideOr(e.committer, e.base.committer),
          committer_time |-> e.base.committer_time,
          remainder      |-> e.base.remainder]

\* lib.rs:87-97: SHA-1 of "<kind> <len>\0" || payload, an injective function of
\* the payload: the OID is the payload itself
calculate_hash(data) == data

\* lib.rs:56-65: WriteObject::from(CommitEditable)
WriteObject(e) == [hash |-> calculate_hash(to_bytes(e)), bytes |-> to_bytes(e)]

\* lib.rs:114-132, taken as one step: nothing with dry_run; an object file
\* that exists is left alone, a missing one is created with the whole
\* compressed object
Repository_write(files, objs, dry) ==
    IF dry THEN files
    ELSE [o \in DOMAIN files \cup objs |->
             IF o \in DOMAIN files THEN files[o] ELSE "complete"]

(***************************************************************************)
(* src/contributors.rs: rewrite                                            *)
(***************************************************************************)
\* a variant that follows the mapping a second time
MapAuthorTransitive(e, m) ==
    IF e.base.author \in DOMAIN m
    THEN set_author(e, GetOr(m, m[e.base.author]))
    ELSE e

\* contributors.rs:52-54
MapAuthor(e, m) ==
    IF e.base.author \in DOMAIN m THEN set_author(e, m[e.base.author]) ELSE e

\* contributors.rs:56-58
MapCommitter(e, m) ==
    IF e.base.committer \in DOMAIN m THEN set_committer(e, m[e.base.committer]) ELSE e

\* a variant that leaves the parents as they are
MapParentsNone(e, rewritten, i) == e

\* contributors.rs:60-64
RECURSIVE MapParents(_, _, _)
MapParents(e, rewritten, i) ==
    IF i > Len(e.parents) THEN e
    ELSE MapParents(IF e.base.parents[i] \in DOMAIN rewritten
                    THEN set_parent(e, i, rewritten[e.base.parents[i]])
                    ELSE e,
                    rewritten, i + 1)

\* contributors.rs:51-64: the edits made to one commit
ContribEdit(c, m, rewritten) ==
    MapParents(MapCommitter(MapAuthor(CommitEditable_create(c), m), m), rewritten, 1)

\* contributors.rs:51-75: one iteration of the loop over commits_topo()
ContribStep ==
    /\ command = "contributor"
    /\ pc = "iterate"
    /\ LET r == IterResult IN
         /\ IterAdvance(r)
         /\ IF r.ret = <<>>
            THEN /\ pc' = "done"
                 /\ UNCHANGED <<rewritten_commits, written, wchan>>
            ELSE LET e == ContribEdit(r.ret[1], mappings, rewritten_commits)
                     w == WriteObject(e)
                 IN  /\ pc' = "iterate"
                     /\ IF has_changes(e)
                        THEN /\ rewritten_commits' = Insert(rewritten_commits, r.ret[1], w.hash)
                             /\ written' = written \cup {w.hash}
                             /\ wchan' = Append(wchan, w.hash)
                        ELSE UNCHANGED <<rewritten_commits, written, wchan>>
    /\ UNCHANGED <<objects, refs, mappings, commit_trees, skipped, command>>
    /\ UNCHANGED <<dry_run, writers, object_files, map_file>>
    /\ UNCHANGED removeVars
    /\ UNCHANGED refVars
    /\ UNCHANGED pureVars

\* contributors.rs:23-39: old -> new, only where old # new
\* (authors and committers are drawn from alice and bob alike, so the mappings
\* are taken up to exchanging the two: empty, one key, a swap, a chain, a join)
MappingSets ==
    {m \in UNION {[D -> Identities] : D \in SUBSET {"alice", "bob"}} :
        /\ \A k \in DOMAIN m : m[k] # k
        /\ "bob" \in DOMAIN m =>
             ("alice" \in DOMAIN m /\ (m["alice"] = "bob" \/ m["bob"] = "carol"))}

PipeRefCounts == {1, 2}

\* a commit and its ancestors
RECURSIVE Ancestors(_)
Ancestors(c) == {c} \cup UNION {Ancestors(c.parents[i]) : i \in 1..Len(c.parents)}

\* the pipelines never read an object no ref reaches: the repositories of the
\* pipeline specifications hold reachable commits only
PipeRefSeqs(objs) ==
    {rs \in UNION {RefsOfLen(objs, n) : n \in PipeRefCounts} :
        objs = UNION {Ancestors(rs[k].hash) : k \in 1..Len(rs)}}

Repos(n, attrs) == {Repo(sh, at) : sh \in Shapes(n), at \in [1..n -> attrs]}

\* author time and committer time differ; all messages are equal, so that a
\* rewritten commit can coincide with another commit of the repository
ContribAttrs ==
    [tree : {"t1"}, author : {"alice", "bob"}, author_time : {"1 +0000"},
     committer : {"alice", "bob"}, committer_time : {"2 +0100"},
     remainder : {"msg"}]

InitContrib ==
    /\ objects \in Repos(PipeCommits, ContribAttrs)
    /\ refs \in PipeRefSeqs(objects)
    /\ IterInit
    /\ mappings \in MappingSets
    /\ RemoveIdle
    /\ RefsIdle
    /\ rewritten_commits = EmptyMap
    /\ commit_trees = EmptyMap
    /\ skipped = {}
    /\ written = {}
    /\ command = "contributor"
    /\ pc = "iterate"
    /\ RunIdle
    /\ PureIdle

NextContrib == ContribStep

SpecContrib == InitContrib /\ [][NextContrib]_vars

\* the final version of an original commit
Final(c) == GetOr(rewritten_commits, c)

(***************************************************************************)
(* C5: after contributor rewrite with mapping M, the author of the final   *)
(* version of every commit C is M[author(C)] if author(C) is a key of M    *)
(* and author(C) otherwise, likewise the committer; M is applied once.     *)
(***************************************************************************)
ContributorsMapped ==
    command = "contributor" =>
        \A c \in Range(emitted) :
            /\ Final(c).author = GetOr(mappings, c.author)
            /\ Final(c).committer = GetOr(mappings, c.committer)

\* the run is over, and a commit by alice was rewritten under a mapping
\* alice -> bob, bob -> carol (one application gives bob, two give carol)
C5_Witness ==
    /\ command = "contributor" /\ pc = "done"
    /\ "alice" \in DOMAIN mappings /\ "bob" \in DOMAIN mappings
    /\ mappings["alice"] = "bob" /\ mappings["bob"] = "carol"
    /\ \E c \in Range(emitted) :
         /\ c.author = "alice" /\ c.committer = "bob"
         /\ Final(c).author = "bob" /\ Final(c).committer = "carol"

(***************************************************************************)
(* C6: contributor rewrite leaves everything but the identities and the    *)
(* parent OIDs as it was: tree, both timestamps and the remainder are      *)
(* those of the original, the parents are as many and in the same order,   *)
(* each replaced by its rewritten_commits entry if it has one.             *)
(***************************************************************************)
ContributorsFrame ==
    command = "contributor" =>
        \A c \in Range(emitted) :
            /\ Final(c).tree = c.tree
            /\ Final(c).author_time = c.author_time
            /\ Final(c).committer_time = c.committer_time
            /\ Final(c).remainder = c.remainder
            /\ Len(Final(c).parents) = Len(c.parents)
            /\ \A i \in 1..Len(c.parents) :
                 Final(c).parents[i] = GetOr(rewritten_commits, c.parents[i])

\* a rewritten merge commit one of whose parents was rewritten and the other not
C6_Witness ==
    /\ command = "contributor" /\ pc = "done"
    /\ \E c \in Range(emitted) :
         /\ Len(c.parents) = 2
         /\ c \in DOMAIN rewritten_commits
         /\ c.parents[1] \in DOMAIN rewritten_commits
         /\ c.parents[2] \notin DOMAIN rewritten_commits
         /\ c.author \in DOMAIN mappings

(***************************************************************************)
(* src/prune.rs: empty-commit prune                                        *)
(***************************************************************************)
\* prune.rs:23: only a commit with exactly one parent can be empty
PruneCandidateAnyParent(c) == Len(c.parents) >= 1
PruneCandidate(c) == Len(c.parents) = 1

\* prune.rs:26: the parent, resolved through rewritten_commits
ResolvedParent_Unresolved(c, rewritten) == c.parents[1]
ResolvedParent(c, rewritten) == GetOr(rewritten, c.parents[1])

\* prune.rs:28: commit_trees[&parent] panics when the key is missing
TreeLookupMisses(c, rewritten, trees) ==
    PruneCandidate(c) /\ ResolvedParent(c, rewritten) \notin DOMAIN trees

\* a variant that compares the trees the wrong way round
parent_if_empty_Inverted(c, rewritten, trees) ==
    IF PruneCandidate(c)
    THEN LET parent == ResolvedParent(c, rewritten)
         IN  IF trees[parent] # c.tree THEN <<parent>> ELSE <<>>
    ELSE <<>>

\* prune.rs:18-38: parent_if_empty; <<parent>> for Some(parent), <<>> for None
parent_if_empty(c, rewritten, trees) ==
    IF PruneCandidate(c)
    THEN LET parent == ResolvedParent(c, rewritten)
         IN  IF trees[parent] = c.tree THEN <<parent>> ELSE <<>>
    ELSE <<>>

\* prune.rs:53-58: every parent is set to its rewritten_commits entry or itself
RECURSIVE RemapParents(_, _, _)
RemapParents(e, rewritten, i) ==
    IF i > Len(e.parents) THEN e
    ELSE RemapParents(set_parent(e, i, GetOr(rewritten, e.base.parents[i])),
                      rewritten, i + 1)

\* prune.rs:60: Commit::create(None, commit.to_bytes(), false), whose hash is
\* computed from the bytes
PruneRebuild(c, rewritten) ==
    calculate_hash(to_bytes(RemapParents(CommitEditable_create(c), rewritten, 1)))

\* prune.rs:46-67: one iteration of the loop of find_empty_commits
PruneStep ==
    /\ command = "prune-empty"
    /\ pc = "iterate"
    /\ LET r == IterResult IN
         /\ IterAdvance(r)
         /\ IF r.ret = <<>>
            THEN /\ pc' = "done"
                 /\ UNCHANGED <<rewritten_commits, commit_trees, skipped, written, wchan>>
            ELSE LET c == r.ret[1] IN
                 IF TreeLookupMisses(c, rewritten_commits, commit_trees)
                 THEN /\ pc' = "panicked"
                      /\ UNCHANGED <<rewritten_commits, commit_trees, skipped, written, wchan>>
                 ELSE LET empty == parent_if_empty(c, rewritten_commits, commit_trees)
                          new == PruneRebuild(c, rewritten_commits)
                      IN  /\ pc' = "iterate"
                          /\ IF empty # <<>>
                             THEN /\ rewritten_commits' = Insert(rewritten_commits, c, empty[1])
                                  /\ skipped' = skipped \cup {c}
                                  /\ UNCHANGED <<commit_trees, written, wchan>>
                             ELSE /\ commit_trees' = Insert(commit_trees, new, new.tree)
                                  /\ skipped' = skipped
                                  /\ IF new # c
                                     THEN /\ rewritten_commits' = Insert(rewritten_commits, c, new)
                                          /\ written' = written \cup {new}
                                          /\ wchan' = Append(wchan, new)
                                     ELSE UNCHANGED <<rewritten_commits, written, wchan>>
    /\ UNCHANGED <<objects, refs, mappings, command>>
    /\ UNCHANGED <<dry_run, writers, object_files, map_file>>
    /\ UNCHANGED removeVars
    /\ UNCHANGED refVars
    /\ UNCHANGED pureVars

\* two trees and two messages: siblings can share a tree and still differ
PruneAttrs ==
    [tree : TreeIds, author : {"alice"}, author_time : {"1 +0000"},
     committer : {"alice"}, committer_time : {"2 +0100"},
     remainder : {"m1", "m2"}]

InitPrune ==
    /\ objects \in Repos(PruneCommits, PruneAttrs)
    /\ refs \in PipeRefSeqs(objects)
    /\ IterInit
    /\ PipelineIdle
    /\ command = "prune-empty"
    /\ pc = "iterate"
    /\ RunIdle
    /\ PureIdle

NextPrune == PruneStep

SpecPrune == InitPrune /\ [][NextPrune]_vars

\* the commits of the resulting history: the final versions of the commits
\* that were visited and not pruned
Kept == Range(emitted) \ skipped

(***************************************************************************)
(* C3: after empty-commit prune no commit of the resulting history with    *)
(* exactly one parent has the tree of that parent.                         *)
(***************************************************************************)
NoEmptyCommitLeft ==
    command = "prune-empty" =>
        \A c \in Kept :
            Len(Final(c).parents) = 1 => Final(c).tree # Final(c).parents[1].tree

\* the run is over; a chain of two consecutive empty commits was pruned and
\* their child was kept, re-parented onto the surviving ancestor
C3_Witness ==
    /\ command = "prune-empty" /\ pc = "done"
    /\ \E c \in Kept :
         /\ Len(c.parents) = 1
         /\ c.parents[1] \in skipped
         /\ Len(c.parents[1].parents) = 1
         /\ c.parents[1].parents[1] \in skipped
         /\ Final(c) # c
         /\ Final(c).parents[1] = Final(c.parents[1])

(***************************************************************************)
(* C4: empty-commit prune never prunes a commit with two or more parents,  *)
(* whatever its tree: it is kept with as many parents, each remapped, and  *)
(* rewritten_commits never maps it to one of its (resolved) parents.       *)
(***************************************************************************)
MergesNeverPruned ==
    command = "prune-empty" =>
        \A c \in Range(emitted) :
            Len(c.parents) >= 2 =>
                /\ c \notin skipped
                /\ Len(Final(c).parents) = Len(c.parents)
                /\ \A i \in 1..Len(c.parents) :
                     /\ Final(c).parents[i] = GetOr(rewritten_commits, c.parents[i])
                     /\ Final(c) # GetOr(rewritten_commits, c.parents[i])

\* a merge whose tree is that of both parents, and whose parents were
\* remapped to the same commit, has been visited
C4_Witness ==
    /\ command = "prune-empty" /\ pc = "done"
    /\ \E c \in Range(emitted) :
         /\ Len(c.parents) = 2
         /\ c.parents[1] # c.parents[2]
         /\ c.tree = c.parents[1].tree /\ c.tree = c.parents[2].tree
         /\ Final(c).parents[1] = Final(c).parents[2]

(***************************************************************************)
(* src/objs/tree.rs: trees.  A tree is its sequence of lines; a line is    *)
(* its text "<mode> <name>" (a sequence of bytes) and the object it names. *)
(***************************************************************************)
Blob == [kind |-> "blob", lines |-> <<>>]

\* tree.rs:53-68: the tree whose payload is the given lines, one after another
TreeFromLines(lines) == calculate_hash([kind |-> "tree", lines |-> lines])

\* tree.rs:76-78
is_tree(line) == line.text[1] # "1"

\* the position of the first occurrence of byte b in s (tree.rs:81)
RECURSIVE Position(_, _, _)
Position(s, b, i) ==
    IF i > Len(s) THEN 0 ELSE IF s[i] = b THEN i ELSE Position(s, b, i + 1)

\* tree.rs:80-83
filename(line) == SubSeq(line.text, Position(line.text, " ", 1) + 1, Len(line.text))

DirLine(name, tree) == [text |-> <<"4", "0", "0", "0", "0", " ", name>>, hash |-> tree]
FileLine(name) == [text |-> <<"1", "0", "0", "6", "4", "4", " ", name>>, hash |-> Blob]

(***************************************************************************)
(* src/remove.rs: the predicates.  Paths and patterns are sequences of     *)
(* bytes; positions count from 1 (the source counts from 0).               *)
(***************************************************************************)
EndsWith(s, suffix) ==
    /\ Len(suffix) <= Len(s)
    /\ SubSeq(s, Len(s) - Len(suffix) + 1, Len(s)) = suffix

StartsWith(s, prefix) ==
    /\ Len(prefix) <= Len(s)
    /\ SubSeq(s, 1, Len(prefix)) = prefix

\* a variant that returns the position of the first occurrence
RECURSIVE first_index_of(_, _)
first_index_of(path, needle) ==
    IF path = <<>> THEN 0
    ELSE IF Head(path) = needle THEN 1
    ELSE LET rest == first_index_of(Tail(path), needle)
         IN  IF rest = 0 THEN 0 ELSE rest + 1

\* remove.rs:28-35: the position of the last occurrence of needle, 0 for None
RECURSIVE last_index_of(_, _)
last_index_of(path, needle) ==
    IF path = <<>> THEN 0
    ELSE IF path[Len(path)] = needle THEN Len(path)
    ELSE last_index_of(SubSeq(path, 1, Len(path) - 1), needle)

\* remove.rs:43-76: the rule one directory pattern adds
FolderRule(folder, path) ==
    LET n == Len(folder)
        front == SubSeq(path, 1, Len(path) - 1)
    IN  IF folder[1] = "*"
        THEN IF folder[n] = "/"
             THEN EndsWith(path, SubSeq(folder, 2, n))
             ELSE EndsWith(front, SubSeq(folder, 2, n))
        ELSE IF folder[n] = "*"
        THEN StartsWith(path, SubSeq(folder, 1, n - 1))
        ELSE IF folder[1] = "/"
        THEN IF folder[n] = "/"
             THEN path = folder
             ELSE Len(path) = n + 1 /\ front = folder
        ELSE LET slashed == IF folder[n] # "/" THEN folder \o <<"/">> ELSE folder
             IN  EndsWith(path, <<"/">> \o slashed)

\* remove.rs:40-80
build_folder_delete_patterns(folders, path) ==
    \E k \in 1..Len(folders) : FolderRule(folders[k], path)

\* a regular expression without metacharacters matches the texts that contain it
Contains(s, needle) ==
    \E k \in 0..(Len(s) - Len(needle)) : SubSeq(s, k + 1, k + Len(needle)) = needle

\* remove.rs:82-92
build_regex_pattern(regexes, folder, file) ==
    \E k \in 1..Len(regexes) : Contains(folder \o file, regexes[k])

\* remove.rs:96-140: the rule one file pattern adds
FileRule(file, path, name) ==
    LET n == Len(file)
        last_slash == last_index_of(file, "/")
    IN  IF file[1] = "*"
        THEN IF last_slash # 0
             THEN /\ EndsWith(path, SubSeq(file, 2, last_slash))
                  /\ name = SubSeq(file, last_slash + 1, n)
             ELSE EndsWith(name, SubSeq(file, 2, n))
        ELSE IF file[n] = "*"
        THEN IF last_slash # 0
             THEN /\ path = SubSeq(file, 1, last_slash)
                  /\ StartsWith(name, SubSeq(file, last_slash + 1, n - 1))
             ELSE StartsWith(name, SubSeq(file, 1, n - 1))
        ELSE IF file[1] = "/"
        THEN /\ Len(path) + Len(name) = n
             /\ path = SubSeq(file, 1, last_slash)
             /\ name = SubSeq(file, last_slash + 1, n)
        ELSE name = file

\* remove.rs:94-144
build_file_delete_patterns(files, path, name) ==
    \E k \in 1..Len(files) : FileRule(files[k], path, name)

(***************************************************************************)
(* src/remove.rs: update_tree.  The result is the returned Option together *)
(* with rewritten_trees and the trees handed to write_tree.                *)
(***************************************************************************)
RECURSIVE update_tree(_, _, _, _, _)
RECURSIVE FilterLines(_, _, _, _, _, _, _, _)

\* remove.rs:169-203: the loop over the lines of the tree, from line k on
FilterLines(lines, k, path, pats, memo, wr, filtered_lines, tree_changed) ==
    IF k > Len(lines)
    THEN [lines |-> filtered_lines, changed |-> tree_changed,
          rewritten_trees |-> memo, written |-> wr]
    ELSE LET line == lines[k] IN
         IF is_tree(line)
         THEN LET full_path == path \o filename(line) \o <<"/">> IN
              IF build_folder_delete_patterns(pats.directories, full_path)
              THEN FilterLines(lines, k + 1, path, pats, memo, wr, filtered_lines, TRUE)
              ELSE LET sub == update_tree(line.hash, full_path, pats, memo, wr) IN
                   IF sub.ret # <<>>
                   THEN FilterLines(lines, k + 1, path, pats, sub.rewritten_trees,
                                    sub.written,
                                    Append(filtered_lines, [line EXCEPT !.hash = sub.ret[1]]),
                                    TRUE)
                   ELSE FilterLines(lines, k + 1, path, pats, sub.rewritten_trees,
                                    sub.written, Append(filtered_lines, line),
                                    tree_changed)
         ELSE IF \/ build_file_delete_patterns(pats.files, path, filename(line))
                 \/ build_regex_pattern(pats.regexes, path, filename(line))
              THEN FilterLines(lines, k + 1, path, pats, memo, wr, filtered_lines, TRUE)
              ELSE FilterLines(lines, k + 1, path, pats, memo, wr,
                               Append(filtered_lines, line), tree_changed)

\* remove.rs:146-221
update_tree(tree_hash, path, pats, memo, wr) ==
    IF tree_hash \in DOMAIN memo
    THEN [ret |-> memo[tree_hash], rewritten_trees |-> memo, written |-> wr]
    ELSE LET f == FilterLines(tree_hash.lines, 1, path, pats, memo, wr, <<>>, FALSE) IN
         IF ~f.changed
         THEN [ret |-> <<>>,
               rewritten_trees |-> Insert(f.rewritten_trees, tree_hash, <<>>),
               written |-> f.written]
         ELSE LET new_hash == TreeFromLines(f.lines) IN
              [ret |-> <<new_hash>>,
               rewritten_trees |-> Insert(f.rewritten_trees, tree_hash, <<new_hash>>),
               written |-> f.written \cup {new_hash}]

\* remove.rs:376-391
RECURSIVE update_parents(_, _, _)
update_parents(e, rewritten, i) ==
    IF i > Len(e.parents) THEN e
    ELSE LET parent == EditableParents(e)[i] IN
         update_parents(IF parent \in DOMAIN rewritten /\ rewritten[parent] # parent
                        THEN set_parent(e, i, rewritten[parent])
                        ELSE e,
                        rewritten, i + 1)

\* commit.rs:163-169
EditableTree(e) == OverrideOr(e.tree, e.base.tree)

\* remove.rs:345-374: the pair (old_hash, new_hash)
update_commit(c, rewritten, memo) ==
    LET e1 == update_parents(CommitEditable_create(c), rewritten, 1)
        t  == EditableTree(e1)
        e2 == IF t \in DOMAIN memo /\ memo[t] # <<>> THEN set_tree(e1, memo[t][1]) ELSE e1
    IN  IF has_changes(e2)
        THEN [old |-> c, new |-> WriteObject(e2).hash, wrote |-> TRUE]
        ELSE [old |-> c, new |-> c, wrote |-> FALSE]

(***************************************************************************)
(* src/remove.rs: remove.  The producer stamps the commits of commits_topo *)
(* with their index, the workers of par_bridge rewrite the tree of one     *)
(* commit each and send the commit on, the orderer finalizes the commits   *)
(* in index order.  A worker's update_tree call is one step.               *)
(***************************************************************************)
\* remove.rs:310-315: a free worker takes the next commit of the iterator
RemoveProduce ==
    /\ command = "remove"
    /\ pc = "iterate"
    /\ Cardinality(pending) < MaxWorkers
    /\ LET r == IterResult IN
         /\ IterAdvance(r)
         /\ IF r.ret = <<>>
            THEN /\ pc' = "drain"
                 /\ UNCHANGED <<pending, next_index>>
            ELSE /\ pc' = "iterate"
                 /\ pending' = pending \cup {[commit |-> r.ret[1], index |-> next_index]}
                 /\ next_index' = next_index + 1
    /\ UNCHANGED <<objects, refs, mappings, rewritten_commits, commit_trees,
                   skipped, written, patterns, rewritten_trees, written_trees,
                   chan, heap, commit_index, finalized, command>>
    /\ UNCHANGED refVars
    /\ UNCHANGED runVars
    /\ UNCHANGED pureVars

\* remove.rs:315-334: a worker rewrites the tree of its commit and sends it
RemoveWork ==
    /\ command = "remove"
    /\ \E oc \in pending :
         LET u == update_tree(oc.commit.tree, <<"/">>, patterns, rewritten_trees,
                              written_trees)
         IN  /\ rewritten_trees' = u.rewritten_trees
             /\ written_trees' = u.written
             /\ object_files' = IF dry_run THEN object_files
                                 ELSE Repository_write(object_files,
                                                       u.written \ written_trees, dry_run)
             /\ chan' = Append(chan, oc)
             /\ pending' = pending \ {oc}
    /\ UNCHANGED <<objects, refs, commits, processed_commits, parents_seen, emitted,
                   mappings, rewritten_commits, commit_trees, skipped, written,
                   patterns, next_index, heap, commit_index, finalized, command, pc>>
    /\ UNCHANGED <<dry_run, wchan, writers, map_file>>
    /\ UNCHANGED refVars
    /\ UNCHANGED pureVars

\* remove.rs:266-278 and 282-294: the orderer finalizes one commit
Finalize(oc, st, memo) ==
    LET u == update_commit(oc.commit, st.rewritten_commits, memo) IN
    [commit_index      |-> st.commit_index + 1,
     rewritten_commits |-> IF u.old # u.new
                           THEN Insert(st.rewritten_commits, u.old, u.new)
                           ELSE st.rewritten_commits,
     written           |-> IF u.wrote THEN st.written \cup {u.new} ELSE st.written,
     finalized         |-> Append(st.finalized, oc.commit),
     heap              |-> st.heap]

\* a variant that pops the entry of greatest index
HeapMax(hp) == CHOOSE m \in hp : \A o \in hp : m.index >= o.index

\* BinaryHeap<Reverse<OrderedCommit>>::pop: the entry of least index
HeapMin(hp) == CHOOSE m \in hp : \A o \in hp : m.index <= o.index

\* remove.rs:280-299: pop while the least entry is the one waited for
RECURSIVE DrainHeap(_, _)
DrainHeap(st, memo) ==
    IF st.heap = {} THEN st
    ELSE LET m == HeapMin(st.heap) IN
         IF m.index = st.commit_index
         THEN DrainHeap(Finalize(m, [st EXCEPT !.heap = st.heap \ {m}], memo), memo)
         ELSE st

\* remove.rs:264-303: the orderer receives one OrderedCommit
RemoveOrder ==
    /\ command = "remove"
    /\ chan # <<>>
    /\ LET ordered_commit == Head(chan)
           st == [commit_index |-> commit_index, rewritten_commits |-> rewritten_commits,
                  written |-> written, finalized |-> finalized, heap |-> heap]
           next == IF ordered_commit.index = commit_index
                   THEN DrainHeap(Finalize(ordered_commit, st, rewritten_trees),
                                  rewritten_trees)
                   ELSE [st EXCEPT !.heap = heap \cup {ordered_commit}]
       IN  /\ chan' = Tail(chan)
           /\ commit_index' = next.commit_index
           /\ rewritten_commits' = next.rewritten_commits
           /\ written' = next.written
           /\ finalized' = next.finalized
           /\ heap' = next.heap
           /\ object_files' = Repository_write(object_files, next.written \ written,
                                               dry_run)
    /\ UNCHANGED <<objects, refs, commits, processed_commits, parents_seen, emitted,
                   mappings, commit_trees, skipped, patterns, rewritten_trees,
                   written_trees, pending, next_index, command, pc>>
    /\ UNCHANGED <<dry_run, wchan, writers, map_file>>
    /\ UNCHANGED refVars
    /\ UNCHANGED pureVars

\* remove.rs:336-339: the iterator is exhausted, every worker has sent its
\* commit, tx is dropped and the orderer has emptied the channel
RemoveFinish ==
    /\ command = "remove"
    /\ pc = "drain"
    /\ pending = {}
    /\ chan = <<>>
    /\ pc' = "done"
    /\ UNCHANGED <<objects, refs, commits, processed_commits, parents_seen, emitted,
                   mappings, rewritten_commits, commit_trees, skipped, written,
                   command>>
    /\ UNCHANGED removeVars
    /\ UNCHANGED refVars
    /\ UNCHANGED runVars
    /\ UNCHANGED pureVars

\* the trees of the repositories: a root with any of the directories a and b
\* and the file x, both directories being the same tree object
Tx == TreeFromLines(<<FileLine("x")>>)

RootLines == <<DirLine("a", Tx), DirLine("b", Tx), FileLine("x")>>

RootTrees ==
    {TreeFromLines(SelectSeq(RootLines, LAMBDA l : l \in S)) :
        S \in (SUBSET Range(RootLines)) \ {{}}}

RemoveAttrs ==
    [tree : RootTrees, author : {"alice"}, author_time : {"1 +0000"},
     committer : {"alice"}, committer_time : {"2 +0100"}, remainder : {"msg"}]

\* the command lines: no pattern; files /b/x and /x; file /a/x; file x;
\* directory /a; directory b; regex a/x
PatternSets ==
    {NoPatterns,
     [NoPatterns EXCEPT !.files = << <<"/", "b", "/", "x">>, <<"/", "x">> >>],
     [NoPatterns EXCEPT !.files = << <<"/", "a", "/", "x">> >>],
     [NoPatterns EXCEPT !.files = << <<"x">> >>],
     [NoPatterns EXCEPT !.directories = << <<"/", "a">> >>],
     [NoPatterns EXCEPT !.directories = << <<"b">> >>],
     [NoPatterns EXCEPT !.regexes = << <<"a", "/", "x">> >>]}

InitRemove ==
    /\ objects \in Repos(RemoveCommits, RemoveAttrs)
    /\ refs \in PipeRefSeqs(objects)
    /\ IterInit
    /\ patterns \in PatternSets
    /\ RefsIdle
    /\ rewritten_trees = EmptyMap
    /\ written_trees = {}
    /\ pending = {}
    /\ next_index = 0
    /\ chan = <<>>
    /\ heap = {}
    /\ commit_index = 0
    /\ finalized = <<>>
    /\ mappings = EmptyMap
    /\ rewritten_commits = EmptyMap
    /\ commit_trees = EmptyMap
    /\ skipped = {}
    /\ written = {}
    /\ command = "remove"
    /\ pc = "iterate"
    /\ RunIdle
    /\ PureIdle

NextRemove == RemoveProduce \/ RemoveWork \/ RemoveOrder \/ RemoveFinish

SpecRemove == InitRemove /\ [][NextRemove]_vars

\* some entry of the tree, at any depth below path, is matched by a predicate
RECURSIVE Matched(_, _)
Matched(tree, path) ==
    \E k \in 1..Len(tree.lines) :
        LET line == tree.lines[k] IN
        IF is_tree(line)
        THEN LET full_path == path \o filename(line) \o <<"/">> IN
             \/ build_folder_delete_patterns(patterns.directories, full_path)
             \/ Matched(line.hash, full_path)
        ELSE \/ build_file_delete_patterns(patterns.files, path, filename(line))
             \/ build_regex_pattern(patterns.regexes, path, filename(line))

(***************************************************************************)
(* C7: after path removal no tree reachable from a rewritten commit has an *)
(* entry, at any depth, whose full path is matched by a predicate.         *)
(***************************************************************************)
NoMatchedEntryLeft ==
    (command = "remove" /\ pc = "done") =>
        \A c \in DOMAIN rewritten_commits :
            ~Matched(rewritten_commits[c].tree, <<"/">>)

(***************************************************************************)
(* C8: the rewrite is a fixed point on untouched objects: a commit whose   *)
(* tree has no matched entry at any depth keeps its tree, and if moreover  *)
(* none of its parents was rewritten it keeps its OID, is not written and  *)
(* is not inserted into rewritten_commits.                                 *)
(***************************************************************************)
UntouchedIsFixedPoint ==
    command = "remove" =>
        \A c \in Range(finalized) :
            ~Matched(c.tree, <<"/">>) =>
                /\ Final(c).tree = c.tree
                /\ (\A p \in Range(c.parents) : p \notin DOMAIN rewritten_commits) =>
                       /\ c \notin DOMAIN rewritten_commits
                       /\ c \notin written

(***************************************************************************)
(* The three pipelines together: one run of one of the subcommands.        *)
(***************************************************************************)
Init == InitContrib \/ InitPrune \/ InitRemove

Next ==
    \/ ContribStep
    \/ PruneStep
    \/ RemoveProduce
    \/ RemoveWork
    \/ RemoveOrder
    \/ RemoveFinish

Spec == Init /\ [][Next]_vars

\* the order in which the commits were finalized: contributor rewrite and
\* prune finalize a commit in the loop iteration that gets it from the
\* iterator, path removal in the orderer
FinalizedOrder == IF command = "remove" THEN finalized ELSE emitted

(***************************************************************************)
(* C2: in each of the three pipelines a commit is finalized only after all *)
(* of its parents, and every commit that is kept has a final version whose *)
(* parents are, in order, rewritten_commits.get(p, p) of its parents p (a  *)
(* pruned commit has no version of its own: it maps to the final version   *)
(* of its nearest surviving ancestor).                                     *)
(***************************************************************************)
FinalizedAfterParents ==
    /\ \A i \in 1..Len(FinalizedOrder) :
         \A p \in Range(FinalizedOrder[i].parents) :
             \E j \in 1..(i - 1) : FinalizedOrder[j] = p
    /\ \A c \in Range(FinalizedOrder) \ skipped :
         /\ Len(Final(c).parents) = Len(c.parents)
         /\ \A i \in 1..Len(c.parents) :
              Final(c).parents[i] = GetOr(rewritten_commits, c.parents[i])

\* the run is over; a kept commit has a rewritten parent, and the parent of
\* its final version is both the rewritten_commits entry of the original
\* parent and an original commit that was rewritten itself
C2_Witness ==
    /\ pc = "done"
    /\ \E c \in Range(FinalizedOrder) \ skipped :
         \E i \in 1..Len(c.parents) :
             /\ c.parents[i] \in DOMAIN rewritten_commits
             /\ Final(c).parents[i] = rewritten_commits[c.parents[i]]
             /\ Final(c).parents[i] \in DOMAIN rewritten_commits

\* C2 as stated: at the end of the run the final version of every original
\* commit has the parents rewritten_commits.get(p, p), none of which is a
\* key of rewritten_commits
C2_AsStated ==
    pc = "done" =>
        \A c \in Range(FinalizedOrder) :
            /\ Len(Final(c).parents) = Len(c.parents)
            /\ \A i \in 1..Len(c.parents) :
                 /\ Final(c).parents[i] = GetOr(rewritten_commits, c.parents[i])
                 /\ Final(c).parents[i] \notin DOMAIN rewritten_commits

(***************************************************************************)
(* src/refs.rs: read_all and update.  A ref name is its directory and its  *)
(* file name; the commits are named, the update does not look into them.   *)
(***************************************************************************)
RefFileNames ==
    <<[dir |-> "refs/heads/", file |-> "a"], [dir |-> "refs/tags/", file |-> "d"],
      [dir |-> "refs/heads/", file |-> "b"], [dir |-> "refs/tags/", file |-> "e"]>>

RefNameSet == {RefFileNames[k] : k \in 1..MaxRefNames}

NamedCommit(id) == [kind |-> "commit", id |-> id]

RefCommits == {NamedCommit("c1"), NamedCommit("c2")}

\* the kind of object read_object finds (git_objects.rs: GitObject)
ObjectKind(o) == IF "kind" \in DOMAIN o THEN o.kind ELSE "commit"

(***************************************************************************)
(* src/objs/tag.rs: an annotated tag is its object, its type, its name and *)
(* the remainder (tagger, blank line, message), each header on its line.   *)
(***************************************************************************)
\* tag.rs:8-49: the tag a payload parses to
Tag_create(bytes) ==
    [kind |-> "tag", object |-> bytes.object, obj_type |-> bytes.obj_type,
     tag_name |-> bytes.tag_name, remainder |-> bytes.remainder]

\* tag.rs:55-57
Tag_object(tag) == tag.object

\* tag.rs:59-62
Tag_set_object(tag, object) == [tag EXCEPT !.object = object]

\* tag.rs:68-88
target_type(tag) == tag.obj_type

\* tag.rs:94-120: "object ", "type " and "tag " lines, then the remainder
Tag_to_bytes(tag) ==
    [object |-> tag.object, obj_type |-> tag.obj_type, tag_name |-> tag.tag_name,
     remainder |-> tag.remainder]

\* the annotated tag v1 on an object
TagOn(o) ==
    Tag_create([object |-> o, obj_type |-> ObjectKind(o), tag_name |-> "v1",
                remainder |-> "tagger"])

\* the objects a ref can point at: the commits, a tree, a tag on a commit,
\* a tag on a tree and a tag on a tag
RefTargets ==
    RefCommits \cup {Tx, TagOn(NamedCommit("c1")), TagOn(Tx),
                     TagOn(TagOn(NamedCommit("c1")))}

\* refs.rs:178-212: the loose refs, in the order in which read_dir lists them
get_loose_refs(files, listing) ==
    [k \in 1..Len(listing) |->
        [name |-> listing[k].name, hash |-> files[listing[k].name]]]

\* Vec::dedup_by: an element is dropped when it has the name of the element
\* retained last, that is of the element right before it
RECURSIVE dedup_by(_, _)
dedup_by(rs, kept) ==
    IF rs = <<>> THEN kept
    ELSE IF kept # <<>> /\ Head(rs).name = kept[Len(kept)].name
         THEN dedup_by(Tail(rs), kept)
         ELSE dedup_by(Tail(rs), Append(kept, Head(rs)))

\* refs.rs:61-83
read_all(loose, packed) == dedup_by(loose \o packed, <<>>)

\* refs.rs:89: update reads the refs
ReadAllRefs ==
    /\ command = "update-refs"
    /\ pc = "read"
    /\ LET rs == read_all(get_loose_refs(ref_files, loose_refs), packed_refs) IN
         /\ refs' = rs
         /\ pc' = IF rs = <<>> THEN "done" ELSE "update"
    /\ ref_index' = 1
    /\ UNCHANGED <<objects, commits, processed_commits, parents_seen, emitted,
                   mappings, rewritten_commits, commit_trees, skipped, written,
                   loose_refs, packed_refs, ref_files, ref_dirs, command>>
    /\ UNCHANGED removeVars
    /\ UNCHANGED runVars
    /\ UNCHANGED pureVars

\* refs.rs:97-175: rewrite_ref on the disk st (ref files, directories, objects
\* written, whether the call panicked)
rewrite_ref(st, ref_name, ref_target, rewritten) ==
    IF ObjectKind(ref_target) = "commit"
    THEN [st EXCEPT !.dirs = @ \cup {ref_name.dir},
                    !.files = IF ref_target \in DOMAIN rewritten
                              THEN Insert(@, ref_name, rewritten[ref_target])
                              ELSE @]
    ELSE IF ObjectKind(ref_target) = "tree"
    THEN st
    ELSE IF target_type(ref_target) = "commit"
    THEN IF Tag_object(ref_target) \in DOMAIN rewritten
         THEN LET target_tag == Tag_set_object(ref_target, rewritten[Tag_object(ref_target)])
                  tag == Tag_create(Tag_to_bytes(target_tag))
              IN  [st EXCEPT !.written = @ \cup {calculate_hash(tag)},
                             !.dirs = @ \cup {ref_name.dir},
                             !.files = Insert(@, ref_name, calculate_hash(tag))]
         ELSE st
    ELSE IF target_type(ref_target) = "tree"
    THEN st
    ELSE [st EXCEPT !.panicked = TRUE]

\* refs.rs:89-91: the loop of update calls rewrite_ref for the ref at ref_index
RewriteRef ==
    /\ command = "update-refs"
    /\ pc = "update"
    /\ refs[ref_index].hash \in objects
    /\ LET st == rewrite_ref([files |-> ref_files, dirs |-> ref_dirs,
                              written |-> written, panicked |-> FALSE],
                             refs[ref_index].name, refs[ref_index].hash,
                             rewritten_commits)
       IN  /\ ref_files' = st.files
           /\ ref_dirs' = st.dirs
           /\ written' = st.written
           /\ pc' = IF st.panicked THEN "panicked"
                     ELSE IF ref_index = Len(refs) THEN "done" ELSE "update"
    /\ ref_index' = ref_index + 1
    /\ UNCHANGED <<objects, refs, commits, processed_commits, parents_seen, emitted,
                   mappings, rewritten_commits, commit_trees, skipped,
                   loose_refs, packed_refs, command>>
    /\ UNCHANGED removeVars
    /\ UNCHANGED runVars
    /\ UNCHANGED pureVars

\* the orders in which read_dir can list the loose refs: the files of one
\* directory come one after another
Listings(S) ==
    {o \in [1..Cardinality(S) -> S] :
        /\ \A i, j \in 1..Cardinality(S) : i # j => o[i] # o[j]
        /\ \A i, j, k \in 1..Cardinality(S) :
             (i < j /\ j < k /\ o[i].dir = o[k].dir) => o[j].dir = o[i].dir}

\* the packed-refs files: entries sorted by name, one per name
PackedRefSets ==
    {SelectSeq([k \in 1..MaxRefNames |-> [name |-> RefFileNames[k],
                                          hash |-> h[RefFileNames[k]]]],
               LAMBDA r : r.name \in D) :
        h \in [RefNameSet -> RefTargets], D \in SUBSET RefNameSet}

\* the maps a pipeline can leave: an old commit maps to another commit
RewrittenMaps ==
    {m \in UNION {[D -> RefCommits \cup {NamedCommit("n1")}] : D \in SUBSET RefCommits} :
        \A c \in DOMAIN m : m[c] # c}

InitRefs ==
    /\ objects = RefTargets
    /\ \E files \in UNION {[D -> RefTargets] : D \in SUBSET RefNameSet} :
         /\ ref_files = files
         /\ \E o \in Listings(DOMAIN files) :
              loose_refs = [k \in 1..Len(o) |-> [name |-> o[k], hash |-> files[o[k]]]]
         /\ ref_dirs = {n.dir : n \in DOMAIN files}
    /\ packed_refs \in PackedRefSets
    /\ rewritten_commits \in RewrittenMaps
    /\ ref_index = 0
    /\ refs = <<>>
    /\ commits = <<>>
    /\ processed_commits = {}
    /\ parents_seen = {}
    /\ emitted = <<>>
    /\ RemoveIdle
    /\ mappings = EmptyMap
    /\ commit_trees = EmptyMap
    /\ skipped = {}
    /\ written = {}
    /\ command = "update-refs"
    /\ pc = "read"
    /\ RunIdle
    /\ PureIdle

NextRefs == ReadAllRefs \/ RewriteRef

SpecRefs == InitRefs /\ [][NextRefs]_vars

\* the target of the ref of a name before the update: that of the loose ref
\* file if there is one, that of the packed-refs entry otherwise
LooseNames == {loose_refs[k].name : k \in 1..Len(loose_refs)}
PackedNames == {packed_refs[k].name : k \in 1..Len(packed_refs)}
LooseTarget(n) == loose_refs[CHOOSE k \in 1..Len(loose_refs) : loose_refs[k].name = n].hash
PackedTarget(n) == packed_refs[CHOOSE k \in 1..Len(packed_refs) : packed_refs[k].name = n].hash
TargetBefore(n) == IF n \in LooseNames THEN LooseTarget(n) ELSE PackedTarget(n)

(***************************************************************************)
(* C9: read_all returns at most one ref per name, and for a name that is   *)
(* both a loose ref file and a packed-refs entry the loose one.            *)
(***************************************************************************)
OneRefPerNameLooseWins ==
    (command = "update-refs" /\ pc # "read") =>
        /\ \A i, j \in 1..Len(refs) : refs[i].name = refs[j].name => i = j
        /\ \A i \in 1..Len(refs) :
             refs[i].name \in LooseNames => refs[i].hash = LooseTarget(refs[i].name)

(***************************************************************************)
(* C10: after the ref update, for every ref (loose or packed-only) whose   *)
(* target is a commit T the loose ref file exists and holds                *)
(* rewritten_commits[T] if T is a key of rewritten_commits, T otherwise.   *)
(***************************************************************************)
RefFilesHoldRewrittenTargets ==
    (command = "update-refs" /\ pc = "done") =>
        \A n \in LooseNames \cup PackedNames :
            ObjectKind(TargetBefore(n)) = "commit" =>
                /\ n \in DOMAIN ref_files
                /\ ref_files[n] = GetOr(rewritten_commits, TargetBefore(n))

\* the names whose ref, before the update, points at an annotated tag of a commit
TagRefNames ==
    {n \in LooseNames \cup PackedNames :
        /\ ObjectKind(TargetBefore(n)) = "tag"
        /\ target_type(TargetBefore(n)) = "commit"}

(***************************************************************************)
(* C11: after the ref update, a ref whose target was an annotated tag of a *)
(* commit C with rewritten_commits[C] = C' has a ref file holding the OID  *)
(* of a new, written tag that is the old tag with the object C'; when C is *)
(* not a key of rewritten_commits no new tag was written for it and the    *)
(* ref still points at the original tag.                                   *)
(***************************************************************************)
TagRefsRetargeted ==
    (command = "update-refs" /\ pc = "done") =>
        \A n \in TagRefNames :
            LET tag == TargetBefore(n) IN
            IF Tag_object(tag) \in DOMAIN rewritten_commits
            THEN LET new == [tag EXCEPT !.object = rewritten_commits[tag.object]] IN
                 /\ new \in written
                 /\ n \in DOMAIN ref_files
                 /\ ref_files[n] = new
            ELSE /\ \A w \in written : w.tag_name # tag.tag_name
                 /\ n \in DOMAIN ref_files => ref_files[n] = tag
                 /\ n \in LooseNames => n \in DOMAIN ref_files

\* what the ref of a target has to point at after the update
RewrittenTarget(t) ==
    IF ObjectKind(t) = "commit" THEN GetOr(rewritten_commits, t)
    ELSE IF ObjectKind(t) = "tag" /\ target_type(t) = "commit"
              /\ Tag_object(t) \in DOMAIN rewritten_commits
    THEN Tag_set_object(t, rewritten_commits[Tag_object(t)])
    ELSE t

\* every ref has a ref file that holds its rewritten target
AllRefsRewritten ==
    \A n \in LooseNames \cup PackedNames :
        n \in DOMAIN ref_files /\ ref_files[n] = RewrittenTarget(TargetBefore(n))

\* the ref files are the ones from before the update
NoRefFileModified ==
    /\ DOMAIN ref_files = LooseNames
    /\ \A n \in LooseNames : ref_files[n] = LooseTarget(n)

(***************************************************************************)
(* C12: the ref update is atomic: when it has ended, by returning or by    *)
(* failing on a ref, either every ref points at its rewritten target or no *)
(* ref file has been modified; when it has failed no ref file has been     *)
(* modified.                                                               *)
(***************************************************************************)
RefUpdateAtomic ==
    /\ (command = "update-refs" /\ pc \in {"done", "panicked"}) =>
           (AllRefsRewritten \/ NoRefFileModified)
    /\ (command = "update-refs" /\ pc = "panicked") => NoRefFileModified

(***************************************************************************)
(* C17: when the ref update has returned, packed-refs does not exist any   *)
(* more (none of its entries is left), and every ref it listed has a loose *)
(* ref file.                                                               *)
(***************************************************************************)
PackedRefsDeletedLast ==
    (command = "update-refs" /\ pc = "done") =>
        /\ packed_refs = <<>>
        /\ \A n \in PackedNames : n \in DOMAIN ref_files

(***************************************************************************)
(* src/lib.rs: write_commits and write, src/compression.rs: pack_file.     *)
(* par_bridge hands the objects of the channel to the threads of the pool; *)
(* a thread's steps are the file system calls of write and pack_file:      *)
(* exists, open with create_new, write_all.                                *)
(***************************************************************************)
Writers == 1..MaxWriters

\* compression.rs:38-53: the output buffer has the capacity of the preamble
\* and the payload; the compressed object fits unless it is longer than
\* that.  The commits of the pipelines are taken to fit.
DeflateFits(o) == IF "deflate_fits" \in DOMAIN o THEN o.deflate_fits ELSE TRUE

WriterPanicked(w) == writers[w].state \in {"open_failed", "compress_failed"}

\* lib.rs:140-143 and 114-130: a free thread takes the next object of the
\* channel and calls write: it returns with dry_run and when the object file
\* exists
WriterTake ==
    /\ pc # "crashed"
    /\ wchan # <<>>
    /\ \E w \in Writers :
         /\ writers[w].state = "idle"
         /\ writers' = [writers EXCEPT ![w] =
                IF dry_run \/ Head(wchan) \in DOMAIN object_files
                THEN [state |-> "idle", obj |-> <<>>]
                ELSE [state |-> "pack_file", obj |-> <<Head(wchan)>>]]
    /\ wchan' = Tail(wchan)
    /\ UNCHANGED <<objects, refs, commits, processed_commits, parents_seen, emitted,
                   mappings, rewritten_commits, commit_trees, skipped, written,
                   dry_run, object_files, map_file, command, pc>>
    /\ UNCHANGED removeVars
    /\ UNCHANGED refVars
    /\ UNCHANGED pureVars

\* compression.rs:32-37: open with create_new; unwrap panics when the file
\* exists
WriterOpen ==
    /\ pc # "crashed"
    /\ \E w \in Writers :
         /\ writers[w].state = "pack_file"
         /\ LET o == writers[w].obj[1] IN
            IF o \in DOMAIN object_files
            THEN /\ writers' = [writers EXCEPT ![w].state = "open_failed"]
                 /\ UNCHANGED object_files
            ELSE /\ writers' = [writers EXCEPT ![w].state = "write_all"]
                 /\ object_files' = Insert(object_files, o, "empty")
    /\ UNCHANGED <<objects, refs, commits, processed_commits, parents_seen, emitted,
                   mappings, rewritten_commits, commit_trees, skipped, written,
                   dry_run, wchan, map_file, command, pc>>
    /\ UNCHANGED removeVars
    /\ UNCHANGED refVars
    /\ UNCHANGED pureVars

\* compression.rs:38-64: compress into the buffer, write what was produced,
\* panic when the compression did not end
WriterWrite ==
    /\ pc # "crashed"
    /\ \E w \in Writers :
         /\ writers[w].state = "write_all"
         /\ LET o == writers[w].obj[1] IN
            IF DeflateFits(o)
            THEN /\ writers' = [writers EXCEPT ![w] = [state |-> "idle", obj |-> <<>>]]
                 /\ object_files' = Insert(object_files, o, "complete")
            ELSE /\ writers' = [writers EXCEPT ![w].state = "compress_failed"]
                 /\ object_files' = Insert(object_files, o, "truncated")
    /\ UNCHANGED <<objects, refs, commits, processed_commits, parents_seen, emitted,
                   mappings, rewritten_commits, commit_trees, skipped, written,
                   dry_run, wchan, map_file, command, pc>>
    /\ UNCHANGED removeVars
    /\ UNCHANGED refVars
    /\ UNCHANGED pureVars

\* contributors.rs:76-77, prune.rs:83, remove.rs:339: the producer is done,
\* tx is dropped; join returns when the channel is empty and every thread is
\* back, and panics when a thread has panicked
JoinWriters ==
    /\ pc = "done"
    /\ wchan = <<>> \/ \E w \in Writers : WriterPanicked(w)
    /\ \A w \in Writers : writers[w].state = "idle" \/ WriterPanicked(w)
    /\ pc' = IF \E w \in Writers : WriterPanicked(w) THEN "panicked" ELSE "joined"
    /\ UNCHANGED <<objects, refs, commits, processed_commits, parents_seen, emitted,
                   mappings, rewritten_commits, commit_trees, skipped, written,
                   command>>
    /\ UNCHANGED runVars
    /\ UNCHANGED removeVars
    /\ UNCHANGED refVars
    /\ UNCHANGED pureVars

\* the process is killed
Crash ==
    /\ pc \notin {"crashed", "joined", "panicked"}
    /\ pc' = "crashed"
    /\ UNCHANGED <<objects, refs, commits, processed_commits, parents_seen, emitted,
                   mappings, rewritten_commits, commit_trees, skipped, written,
                   command>>
    /\ UNCHANGED runVars
    /\ UNCHANGED removeVars
    /\ UNCHANGED refVars
    /\ UNCHANGED pureVars

MaxWrites == 3

\* the objects sent to write_commits: w1 and w2 compress into the buffer of
\* pack_file, w3 does not
WriteObjects ==
    {[id |-> "w1", deflate_fits |-> TRUE], [id |-> "w2", deflate_fits |-> TRUE],
     [id |-> "w3", deflate_fits |-> FALSE]}

\* the object files a former run left
FilesBefore ==
    {[o \in D |-> "complete"] : D \in SUBSET {[id |-> "w1", deflate_fits |-> TRUE]}}

InitWrite ==
    /\ wchan \in SeqsUpTo(WriteObjects, MaxWrites)
    /\ written = Range(wchan)
    /\ dry_run \in BOOLEAN
    /\ object_files \in FilesBefore
    /\ writers = WritersIdle
    /\ map_file = <<>>
    /\ objects = {}
    /\ refs = <<>>
    /\ IterInit
    /\ RemoveIdle
    /\ RefsIdle
    /\ mappings = EmptyMap
    /\ rewritten_commits = EmptyMap
    /\ commit_trees = EmptyMap
    /\ skipped = {}
    /\ command = "write-commits"
    /\ pc = "done"
    /\ PureIdle

NextWrite == WriterTake \/ WriterOpen \/ WriterWrite \/ JoinWriters \/ Crash

SpecWrite == InitWrite /\ [][NextWrite]_vars

(***************************************************************************)
(* C15: concurrent writes of the same object are benign: no call of write  *)
(* fails on the object file another call has created.                      *)
(***************************************************************************)
ConcurrentWritesBenign ==
    \A w \in Writers : writers[w].state # "open_failed"

(***************************************************************************)
(* C16: in every reachable state, an object file that exists holds the     *)
(* complete compressed object.                                             *)
(***************************************************************************)
ObjectFilesComplete ==
    \A o \in DOMAIN object_files : object_files[o] = "complete"

(***************************************************************************)
(* A whole run of a subcommand: the pipeline, the writer threads, then the *)
(* ref update and object-id-map.old-new.txt.                               *)
(***************************************************************************)
RunCommits == 2
RunPruneCommits == 3

\* the path of the ref file of a name below the repository
RefPath(name) ==
    CASE name = "refs/heads/a" -> [dir |-> "refs/heads/", file |-> "a"]
      [] name = "refs/heads/b" -> [dir |-> "refs/heads/", file |-> "b"]
      [] name = "refs/heads/c" -> [dir |-> "refs/heads/", file |-> "c"]
      [] OTHER -> [dir |-> "refs/tags/", file |-> "d"]

\* the refs of the repository are loose ref files
RefsOnDisk(rs) ==
    /\ loose_refs = [k \in 1..Len(rs) |-> [name |-> RefPath(rs[k].name), hash |-> rs[k].hash]]
    /\ ref_files = [n \in {RefPath(rs[k].name) : k \in 1..Len(rs)} |->
                       rs[CHOOSE k \in 1..Len(rs) : RefPath(rs[k].name) = n].hash]
    /\ ref_dirs = {RefPath(rs[k].name).dir : k \in 1..Len(rs)}
    /\ packed_refs = <<>>
    /\ ref_index = 0

\* refs.rs:85-95: update on the disk st
RECURSIVE GitRef_update(_, _, _)
GitRef_update(st, rs, rewritten) ==
    IF rs = <<>> \/ st.panicked THEN st
    ELSE GitRef_update(rewrite_ref(st, Head(rs).name, Head(rs).hash, rewritten),
                       Tail(rs), rewritten)

\* lib.rs:170-178
Repository_update_refs(st, rs, rewritten, dry) ==
    IF ~dry THEN GitRef_update(st, rs, rewritten) ELSE st

\* lib.rs:180-199
write_rewritten_commits_file(file, rewritten, dry) ==
    IF dry THEN file ELSE <<rewritten>>

\* prune.rs:92-106
write_rewritten_commits(file, rewritten) == <<rewritten>>

\* contributors.rs:79-80, prune.rs:85, remove.rs:341: the ref update of the
\* subcommand
UpdateRefs ==
    /\ command \in {"contributor", "prune-empty", "remove"}
    /\ pc = "joined"
    /\ LET disk == [files |-> ref_files, dirs |-> ref_dirs, written |-> written,
                    panicked |-> FALSE]
           rs == read_all(get_loose_refs(ref_files, loose_refs), packed_refs)
           st == IF command = "prune-empty"
                 THEN GitRef_update(disk, rs, rewritten_commits)
                 ELSE IF command = "contributor" /\ rewritten_commits = EmptyMap
                 THEN disk
                 ELSE Repository_update_refs(disk, rs, rewritten_commits, dry_run)
       IN  /\ ref_files' = st.files
           /\ ref_dirs' = st.dirs
           /\ written' = st.written
           /\ pc' = IF st.panicked THEN "panicked"
                    ELSE IF command = "contributor" /\ rewritten_commits = EmptyMap
                    THEN "finished"
                    ELSE IF command = "prune-empty" \/ ~dry_run THEN "refs-updated"
                    ELSE "refs-skipped"
    /\ UNCHANGED <<objects, refs, commits, processed_commits, parents_seen, emitted,
                   mappings, rewritten_commits, commit_trees, skipped,
                   loose_refs, packed_refs, ref_index, command>>
    /\ UNCHANGED runVars
    /\ UNCHANGED removeVars
    /\ UNCHANGED pureVars

\* contributors.rs:81, prune.rs:87, remove.rs:342: the map file of the
\* subcommand
WriteMapFile ==
    /\ command \in {"contributor", "prune-empty", "remove"}
    /\ pc \in {"refs-updated", "refs-skipped"}
    /\ map_file' = IF command = "prune-empty"
                   THEN write_rewritten_commits(map_file, rewritten_commits)
                   ELSE write_rewritten_commits_file(map_file, rewritten_commits, dry_run)
    /\ pc' = "finished"
    /\ UNCHANGED <<objects, refs, commits, processed_commits, parents_seen, emitted,
                   mappings, rewritten_commits, commit_trees, skipped, written,
                   dry_run, wchan, writers, object_files, command>>
    /\ UNCHANGED removeVars
    /\ UNCHANGED refVars
    /\ UNCHANGED pureVars

\* the committer is alice throughout
RunContribAttrs ==
    [tree : {"t1"}, author : {"alice", "bob"}, author_time : {"1 +0000"},
     committer : {"alice"}, committer_time : {"2 +0100"}, remainder : {"msg"}]

\* no loose object before the run: the repository is packed
RunStart ==
    /\ IterInit
    /\ RefsOnDisk(refs)
    /\ dry_run \in BOOLEAN
    /\ wchan = <<>>
    /\ writers = WritersIdle
    /\ object_files = EmptyMap
    /\ map_file = <<>>
    /\ rewritten_commits = EmptyMap
    /\ commit_trees = EmptyMap
    /\ skipped = {}
    /\ written = {}
    /\ rewritten_trees = EmptyMap
    /\ written_trees = {}
    /\ pending = {}
    /\ next_index = 0
    /\ chan = <<>>
    /\ heap = {}
    /\ commit_index = 0
    /\ finalized = <<>>
    /\ pc = "iterate"
    /\ PureIdle

InitRun ==
    /\ \/ /\ command = "contributor"
          /\ objects \in Repos(RunCommits, RunContribAttrs)
          /\ mappings \in MappingSets
          /\ patterns = NoPatterns
       \/ /\ command = "prune-empty"
          /\ objects \in Repos(RunPruneCommits, PruneAttrs)
          /\ mappings = EmptyMap
          /\ patterns = NoPatterns
       \/ /\ command = "remove"
          /\ objects \in Repos(RunCommits, RemoveAttrs)
          /\ mappings = EmptyMap
          /\ patterns \in PatternSets
    /\ refs \in PipeRefSeqs(objects)
    /\ RunStart

NextRun ==
    \/ ContribStep
    \/ PruneStep
    \/ RemoveProduce
    \/ RemoveWork
    \/ RemoveOrder
    \/ RemoveFinish
    \/ WriterTake
    \/ WriterOpen
    \/ WriterWrite
    \/ JoinWriters
    \/ UpdateRefs
    \/ WriteMapFile

SpecRun == InitRun /\ [][NextRun]_vars

(***************************************************************************)
(* C13: with dry_run no pipeline creates, modifies or deletes a file: no   *)
(* object file, no ref file, not packed-refs, not the map file.            *)
(***************************************************************************)
DryRunTouchesNoFile ==
    dry_run =>
        /\ object_files = EmptyMap
        /\ NoRefFileModified
        /\ packed_refs = <<>>
        /\ map_file = <<>>

(***************************************************************************)
(* C14: when the refs have been updated, and when the map file has been    *)
(* written, every object handed to the writers (sent on the channel or     *)
(* written by a tree or commit worker) is completely written.              *)
(***************************************************************************)
RefUpdateAfterAllWrites ==
    (pc = "refs-updated" \/ map_file # <<>>) =>
        \A o \in written \cup written_trees :
            o \in DOMAIN object_files /\ object_files[o] = "complete"

(***************************************************************************)
(* src/pack_diff.rs and src/packreader.rs: an object stored as a chain of  *)
(* OFS_DELTA objects is restored by combining the deltas from the top of   *)
(* the chain downwards and applying the combined delta to the base.        *)
(***************************************************************************)
MaxInstr == 2
MaxChain == 3
MaxTargetLen == 4

\* the content of the base object
BaseBytes == <<"a", "b">>

\* the byte strings of the Add instructions
AddTexts == {<<"x", "y">>}

\* pack_diff.rs:5-8 and 70-72
CopyInstruction(offset, len) == [kind |-> "copy", offset |-> offset, len |-> len]
AddInstruction(bytes) == [kind |-> "add", bytes |-> bytes]

\* pack_diff.rs:102-109
DiffInstruction_len(i) == IF i.kind = "copy" THEN i.len ELSE Len(i.bytes)

RECURSIVE InstructionsLen(_)
InstructionsLen(ins) ==
    IF ins = <<>> THEN 0 ELSE DiffInstruction_len(Head(ins)) + InstructionsLen(Tail(ins))

\* pack_diff.rs:174-186: the bytes the instructions put into target, one
\* after another
RECURSIVE ApplyInstructions(_, _)
ApplyInstructions(ins, bytes) ==
    IF ins = <<>> THEN <<>>
    ELSE LET i == Head(ins) IN
         (IF i.kind = "add" THEN i.bytes
          ELSE SubSeq(bytes, i.offset + 1, i.offset + i.len))
         \o ApplyInstructions(Tail(ins), bytes)

\* pack_diff.rs:168-190: a slice out of range panics; the bytes of target
\* no instruction has written are uninitialised
apply(d, bytes) ==
    IF \/ \E k \in 1..Len(d.instructions) :
            /\ d.instructions[k].kind = "copy"
            /\ d.instructions[k].offset + d.instructions[k].len > Len(bytes)
       \/ InstructionsLen(d.instructions) > d.target_len
    THEN <<"panic">>
    ELSE ApplyInstructions(d.instructions, bytes)
         \o [k \in 1..(d.target_len - InstructionsLen(d.instructions)) |-> "uninit"]

\* a variant that takes the start of the source instruction
TakeFromStart(source_instruction, source_instruction_offset, bytes_to_take) ==
    IF source_instruction.kind = "copy"
    THEN CopyInstruction(source_instruction.offset, bytes_to_take)
    ELSE AddInstruction(SubSeq(source_instruction.bytes, 1, bytes_to_take))

\* pack_diff.rs:215-227: the part of a source instruction a copy window takes
TakeFrom(source_instruction, source_instruction_offset, bytes_to_take) ==
    IF source_instruction.kind = "copy"
    THEN CopyInstruction(source_instruction.offset + source_instruction_offset,
                         bytes_to_take)
    ELSE AddInstruction(SubSeq(source_instruction.bytes, source_instruction_offset + 1,
                               source_instruction_offset + bytes_to_take))

\* pack_diff.rs:201-235: the loop over the instructions of source, from
\* instruction k on
RECURSIVE CopyLoop(_, _, _, _, _, _)
CopyLoop(copy_instruction, source, k, current_source_offset, copy_instruction_consumed, result) ==
    IF k > Len(source.instructions) THEN result
    ELSE LET source_instruction == source.instructions[k]
             source_instruction_len == DiffInstruction_len(source_instruction)
             end_offset == copy_instruction.offset + copy_instruction.len
         IN  IF /\ copy_instruction.offset < current_source_offset + source_instruction_len
                /\ end_offset > current_source_offset
             THEN LET source_instruction_offset ==
                          copy_instruction.offset + copy_instruction_consumed
                          - current_source_offset
                      bytes_to_take ==
                          IF source_instruction_len - source_instruction_offset
                             <= copy_instruction.len - copy_instruction_consumed
                          THEN source_instruction_len - source_instruction_offset
                          ELSE copy_instruction.len - copy_instruction_consumed
                  IN  CopyLoop(copy_instruction, source, k + 1,
                               current_source_offset + source_instruction_len,
                               copy_instruction_consumed + bytes_to_take,
                               Append(result, TakeFrom(source_instruction,
                                                       source_instruction_offset,
                                                       bytes_to_take)))
             ELSE IF end_offset < current_source_offset
             THEN result
             ELSE CopyLoop(copy_instruction, source, k + 1,
                           current_source_offset + source_instruction_len,
                           copy_instruction_consumed, result)

\* pack_diff.rs:191-238
get_instructions_from_copy(copy_instruction, source) ==
    CopyLoop(copy_instruction, source, 1, 0, 0, <<>>)

\* pack_diff.rs:144-158: the loop over the instructions of self
RECURSIVE CombineInstructions(_, _)
CombineInstructions(ins, other) ==
    IF ins = <<>> THEN <<>>
    ELSE (IF Head(ins).kind = "copy"
          THEN get_instructions_from_copy(Head(ins), other)
          ELSE <<Head(ins)>>)
         \o CombineInstructions(Tail(ins), other)

\* pack_diff.rs:141-165
combine(self, other) ==
    [target_len      |-> self.target_len,
     negative_offset |-> other.negative_offset,
     instructions    |-> CombineInstructions(self.instructions, other)]

\* the instructions of a delta against a source of n bytes
Instructions(n) ==
    {CopyInstruction(o, l) : o \in 0..(n - 1), l \in 1..n} \cup
    {AddInstruction(t) : t \in AddTexts}

\* the deltas against a source of n bytes: the copy windows lie in the
\* source, target_len is the number of bytes the instructions produce, the
\* base of the delta is the object right before it
Deltas(n) ==
    {[target_len |-> InstructionsLen(ins), negative_offset |-> 1, instructions |-> ins] :
        ins \in {i \in UNION {[1..m -> Instructions(n)] : m \in 1..MaxInstr} :
                    /\ InstructionsLen(i) <= MaxTargetLen
                    /\ \A k \in 1..Len(i) :
                         i[k].kind = "copy" => i[k].offset + i[k].len <= n}}

\* the chains of k deltas above an object of the content bytes: every delta
\* is one against the output of the delta below it
DeltasOf == [n \in 0..MaxTargetLen |-> Deltas(n)]

\* the chains of at most k more deltas above the chain prefix, whose output
\* is bytes: every delta is one against the output of the delta below it
RECURSIVE ChainAbove(_, _, _)
ChainAbove(prefix, bytes, k) ==
    \/ prefix # <<>> /\ delta_chain = prefix
    \/ /\ k > 0
       /\ \E d \in DeltasOf[Len(bytes)] :
            ChainAbove(Append(prefix, d), apply(d, bytes), k - 1)

\* the output of delta i of the chain, applied one delta after another
RECURSIVE ChainOutput(_)
ChainOutput(i) ==
    IF i = 0 THEN delta_base ELSE apply(delta_chain[i], ChainOutput(i - 1))

\* packreader.rs:102-103
DeltaCreate ==
    /\ command = "unpack"
    /\ pc = "create"
    /\ pack_diff' = delta_chain[chain_index]
    /\ chain_index' = chain_index - pack_diff'.negative_offset
    /\ pc' = "walk"
    /\ UNCHANGED <<delta_base, delta_chain, content, pack, read_result, idxVars, command>>
    /\ UNCHANGED <<objects, refs, commits, processed_commits, parents_seen, emitted,
                   mappings, rewritten_commits, commit_trees, skipped, written>>
    /\ UNCHANGED <<removeVars, refVars, runVars, commitVars, matchVars>>

\* packreader.rs:105-110: the object below is an OFS_DELTA too
DeltaCombine ==
    /\ command = "unpack"
    /\ pc = "walk"
    /\ chain_index > 0
    /\ LET target_diff == delta_chain[chain_index] IN
         /\ pack_diff' = combine(pack_diff, target_diff)
         /\ chain_index' = chain_index - pack_diff'.negative_offset
    /\ UNCHANGED <<delta_base, delta_chain, content, pack, read_result, idxVars, command, pc>>
    /\ UNCHANGED <<objects, refs, commits, processed_commits, parents_seen, emitted,
                   mappings, rewritten_commits, commit_trees, skipped, written>>
    /\ UNCHANGED <<removeVars, refVars, runVars, commitVars, matchVars>>

\* packreader.rs:112-113: the object below is the base
DeltaApply ==
    /\ command = "unpack"
    /\ pc = "walk"
    /\ chain_index = 0
    /\ content' = apply(pack_diff, delta_base)
    /\ pc' = "done"
    /\ UNCHANGED <<delta_base, delta_chain, pack_diff, chain_index, pack, read_result,
                   idxVars, command>>
    /\ UNCHANGED <<objects, refs, commits, processed_commits, parents_seen, emitted,
                   mappings, rewritten_commits, commit_trees, skipped, written>>
    /\ UNCHANGED <<removeVars, refVars, runVars, commitVars, matchVars>>

InitDelta ==
    /\ delta_base = BaseBytes
    /\ ChainAbove(<<>>, BaseBytes, MaxChain)
    /\ chain_index = Len(delta_chain)
    /\ pack_diff = <<>>
    /\ content = <<>>
    /\ pack = <<>>
    /\ read_result = <<>>
    /\ IdxIdle
    /\ objects = {}
    /\ refs = <<>>
    /\ IterInit
    /\ PipelineIdle
    /\ RunIdle
    /\ CommitIdle
    /\ MatchIdle
    /\ command = "unpack"
    /\ pc = "create"

NextDelta == DeltaCreate \/ DeltaCombine \/ DeltaApply

SpecDelta == InitDelta /\ [][NextDelta]_vars

(***************************************************************************)
(* C18: delta composition is sound: once a delta D2 has been combined with *)
(* the delta D1 below it, the result has the target_len of D2 and applying *)
(* it to the source of D1 gives what applying D1 and then D2 gives; this   *)
(* holds again after every further combine down the chain, and the bytes   *)
(* restored in the end are those of applying the chain delta by delta.     *)
(***************************************************************************)
DeltaCompositionSound ==
    command = "unpack" =>
        /\ pc = "walk" =>
             /\ pack_diff.target_len = delta_chain[Len(delta_chain)].target_len
             /\ apply(pack_diff, ChainOutput(chain_index)) = ChainOutput(Len(delta_chain))
        /\ pc = "done" => content = ChainOutput(Len(delta_chain))

\* a window that starts inside one instruction of the delta below and ends
\* inside the next one has been combined, and so has a combined delta
C18_Witness ==
    /\ command = "unpack"
    /\ pc = "done"
    /\ Len(delta_chain) = 3
    /\ \E k \in 1..Len(delta_chain[2].instructions) :
         LET c == delta_chain[2].instructions[k]
             first == delta_chain[1].instructions[1]
         IN  /\ c.kind = "copy"
             /\ Len(delta_chain[1].instructions) = 2
             /\ c.offset > 0
             /\ c.offset < DiffInstruction_len(first)
             /\ c.offset + c.len > DiffInstruction_len(first)
             /\ c.offset + c.len < delta_chain[1].target_len
    /\ \E k \in 1..Len(delta_chain[3].instructions) :
         /\ delta_chain[3].instructions[k].kind = "copy"
         /\ delta_chain[3].instructions[k].offset > 0

(***************************************************************************)
(* src/objs/commit.rs on the bytes of a payload: CommitBase::create keeps  *)
(* positions into the payload, to_bytes puts the payload together again.   *)
(* A byte is a one-character string, a hash has two hex digits.            *)
(***************************************************************************)
HexDigits ==
    <<"0", "1", "2", "3", "4", "5", "6", "7", "8", "9", "a", "b", "c", "d", "e", "f">>

\* shared/object_hash.rs:77-82: the value of a lower-case hex digit; the table
\* has 0 for the upper-case digits A to F
HASH_VALUE(ch) ==
    IF \E v \in 1..16 : HexDigits[v] = ch
    THEN (CHOOSE v \in 1..16 : HexDigits[v] = ch) - 1
    ELSE 0

\* shared/object_hash.rs:22-33
ObjectHash_try_from_bstr(hash) == HASH_VALUE(hash[1]) * 16 + HASH_VALUE(hash[2])

\* shared/object_hash.rs:7-12: hex::encode
ObjectHash_to_string(h) == <<HexDigits[(h \div 16) + 1], HexDigits[(h % 16) + 1]>>

\* bstr lines(): the lines from byte from on, without the terminator \n or
\* \r\n, each with its position in bytes
RECURSIVE lines(_, _)
lines(bytes, from) ==
    IF from > Len(bytes) THEN <<>>
    ELSE LET end == IF \E k \in from..Len(bytes) : bytes[k] = "\n"
                    THEN CHOOSE k \in from..Len(bytes) :
                             /\ bytes[k] = "\n"
                             /\ \A j \in from..(k - 1) : bytes[j] # "\n"
                    ELSE Len(bytes) + 1
             len == IF end <= Len(bytes) /\ end > from /\ bytes[end - 1] = "\r"
                    THEN end - from - 1
                    ELSE end - from
         IN  <<[position |-> from - 1, len |-> len]>> \o lines(bytes, end + 1)

\* shared/mod.rs:33-40: the slice from slice_pos on
from_slice(slice, slice_pos) ==
    [position |-> slice.position + slice_pos, len |-> slice.len - slice_pos]

\* shared/mod.rs:42-49
SliceIndexes_get(r, data) == SubSeq(data, r.position + 1, r.position + r.len)

\* commit.rs:37-52: the position of the second space from the end
time_index(line) ==
    LET spaces == {k \in 1..Len(line) : line[k] = " "}
        seconds == {k \in spaces : Cardinality({j \in spaces : j > k}) = 1}
    IN  IF seconds = {} THEN Len(line) ELSE (CHOOSE k \in seconds : TRUE) - 1

\* a variant that lets the remainder start at the end of the committer line
remainder_start_AtNewline(committer_line) == committer_line.position + committer_line.len

\* commit.rs:83-87
remainder_start(committer_line) == committer_line.position + committer_line.len + 1

\* commit.rs:54-105, skip_first_null = false
CommitBase_create(bytes) ==
    LET line_reader == lines(bytes, 1)
        parent_lines == {k \in 2..Len(line_reader) :
                            \A j \in 2..k :
                                StartsWith(SliceIndexes_get(line_reader[j], bytes),
                                           <<"p", "a", "r", "e", "n", "t", " ">>)}
        author_line == from_slice(line_reader[2 + Cardinality(parent_lines)], 7)
        author_time_index == time_index(SliceIndexes_get(author_line, bytes))
        committer_line == from_slice(line_reader[3 + Cardinality(parent_lines)], 10)
        committer_time_index == time_index(SliceIndexes_get(committer_line, bytes))
    IN  [bytes          |-> bytes,
         tree_line      |-> from_slice(line_reader[1], 5),
         parents        |-> [i \in 1..Cardinality(parent_lines) |->
                                from_slice(line_reader[1 + i], 7)],
         author         |-> [position |-> author_line.position, len |-> author_time_index],
         author_time    |-> from_slice(author_line, author_time_index + 1),
         committer      |-> [position |-> committer_line.position,
                             len |-> committer_time_index],
         committer_time |-> from_slice(committer_line, committer_time_index + 1),
         remainder      |-> [position |-> remainder_start(committer_line),
                             len |-> Len(bytes) - remainder_start(committer_line)]]

\* commit.rs:107-109
CommitBase_get_str(base, slice) == SliceIndexes_get(slice, base.bytes)

\* commit.rs:149-157
CommitEditable_parents(e) ==
    [i \in 1..Len(e.parents) |->
        IF e.parents[i] # <<>> THEN e.parents[i][1]
        ELSE ObjectHash_try_from_bstr(CommitBase_get_str(e.base, e.base.parents[i]))]

\* commit.rs:163-169
CommitEditable_tree(e) ==
    IF e.tree # <<>> THEN e.tree[1]
    ELSE ObjectHash_try_from_bstr(CommitBase_get_str(e.base, e.base.tree_line))

\* commit.rs:183-189
author_bytes(e) ==
    IF e.author # <<>> THEN e.author[1] ELSE CommitBase_get_str(e.base, e.base.author)

\* commit.rs:199-206
committer_bytes(e) ==
    IF e.committer # <<>> THEN e.committer[1]
    ELSE CommitBase_get_str(e.base, e.base.committer)

RECURSIVE ParentLines(_)
ParentLines(parents) ==
    IF parents = <<>> THEN <<>>
    ELSE <<"p", "a", "r", "e", "n", "t", " ">> \o ObjectHash_to_string(Head(parents))
         \o <<"\n">> \o ParentLines(Tail(parents))

\* commit.rs:230-296 on bytes
CommitEditable_to_bytes(e) ==
    IF ~has_changes(e) THEN e.base.bytes
    ELSE LET tree == IF e.tree # <<>> THEN ObjectHash_to_string(e.tree[1])
                     ELSE CommitBase_get_str(e.base, e.base.tree_line)
         IN  <<"t", "r", "e", "e", " ">> \o tree \o <<"\n">>
             \o ParentLines(CommitEditable_parents(e))
             \o <<"a", "u", "t", "h", "o", "r", " ">> \o author_bytes(e) \o <<" ">>
             \o CommitBase_get_str(e.base, e.base.author_time) \o <<"\n">>
             \o <<"c", "o", "m", "m", "i", "t", "t", "e", "r", " ">> \o committer_bytes(e)
             \o <<" ">> \o CommitBase_get_str(e.base, e.base.committer_time) \o <<"\n">>
             \o CommitBase_get_str(e.base, e.base.remainder)

\* the payloads: a tree, up to two parents, author and committer with their
\* times, then the remainder
PayloadTrees == {<<"3", "1">>}
PayloadParents == {<<>>, << <<"5", "e">> >>, << <<"0", "a">>, <<"f", "0">> >>}
PayloadAuthors == {<<"A", " ", "<", "a", ">", " ", "1", " ", "+", "0">>, <<"A", " ", " ", "B", " ", "1", "6", " ", "-", "1">>}
PayloadCommitters == {<<"C", " ", "<", "c", ">", " ", "2", " ", "+", "1">>}
PayloadRemainders == {<<"\n", "m", "\n">>, <<"\n">>, <<"g", "p", "g", "s", "i", "g", " ", "s", "\n", "\n", "m">>, <<"\n", "m", "\r", "\n", "\r", "\n", "n">>}

RECURSIVE PayloadParentLines(_)
PayloadParentLines(parents) ==
    IF parents = <<>> THEN <<>>
    ELSE <<"p", "a", "r", "e", "n", "t", " ">> \o Head(parents) \o <<"\n">>
         \o PayloadParentLines(Tail(parents))

Payloads ==
    {<<"t", "r", "e", "e", " ">> \o t \o <<"\n">> \o PayloadParentLines(p)
     \o <<"a", "u", "t", "h", "o", "r", " ">> \o a \o <<"\n">>
     \o <<"c", "o", "m", "m", "i", "t", "t", "e", "r", " ">> \o c \o <<"\n">> \o r :
        t \in PayloadTrees, p \in PayloadParents, a \in PayloadAuthors,
        c \in PayloadCommitters, r \in PayloadRemainders}

\* the values set_author is called with besides the parsed author
OtherAuthors == {<<"T", " ", "u">>}

\* commit.rs:131-140 on CommitBase::create
CommitCreate ==
    /\ command = "commit"
    /\ pc = "parse"
    /\ editable' = CommitEditable_create(CommitBase_create(commit_bytes))
    /\ pc' = "edit"
    /\ UNCHANGED <<commit_bytes, out_bytes, command>>
    /\ UNCHANGED <<objects, refs, commits, processed_commits, parents_seen, emitted,
                   mappings, rewritten_commits, commit_trees, skipped, written>>
    /\ UNCHANGED <<removeVars, refVars, runVars, deltaVars, matchVars>>

\* commit.rs:191-193: set_author with the parsed author or another value
CommitSetAuthor ==
    /\ command = "commit"
    /\ pc = "edit"
    /\ \E author \in OtherAuthors
                     \cup {CommitBase_get_str(editable.base, editable.base.author)} :
         editable' = set_author(editable, author)
    /\ UNCHANGED <<commit_bytes, out_bytes, command, pc>>
    /\ UNCHANGED <<objects, refs, commits, processed_commits, parents_seen, emitted,
                   mappings, rewritten_commits, commit_trees, skipped, written>>
    /\ UNCHANGED <<removeVars, refVars, runVars, deltaVars, matchVars>>

\* commit.rs:208-210: set_committer with the committer the commit has
CommitSetCommitter ==
    /\ command = "commit"
    /\ pc = "edit"
    /\ editable' = set_committer(editable, committer_bytes(editable))
    /\ UNCHANGED <<commit_bytes, out_bytes, command, pc>>
    /\ UNCHANGED <<objects, refs, commits, processed_commits, parents_seen, emitted,
                   mappings, rewritten_commits, commit_trees, skipped, written>>
    /\ UNCHANGED <<removeVars, refVars, runVars, deltaVars, matchVars>>

\* commit.rs:175-177: set_parent with the parent the commit has
CommitSetParent ==
    /\ command = "commit"
    /\ pc = "edit"
    /\ \E i \in 1..Len(editable.parents) :
         editable' = set_parent(editable, i, CommitEditable_parents(editable)[i])
    /\ UNCHANGED <<commit_bytes, out_bytes, command, pc>>
    /\ UNCHANGED <<objects, refs, commits, processed_commits, parents_seen, emitted,
                   mappings, rewritten_commits, commit_trees, skipped, written>>
    /\ UNCHANGED <<removeVars, refVars, runVars, deltaVars, matchVars>>

\* commit.rs:171-173: set_tree with the tree the commit has
CommitSetTree ==
    /\ command = "commit"
    /\ pc = "edit"
    /\ editable' = set_tree(editable, CommitEditable_tree(editable))
    /\ UNCHANGED <<commit_bytes, out_bytes, command, pc>>
    /\ UNCHANGED <<objects, refs, commits, processed_commits, parents_seen, emitted,
                   mappings, rewritten_commits, commit_trees, skipped, written>>
    /\ UNCHANGED <<removeVars, refVars, runVars, deltaVars, matchVars>>

\* commit.rs:230-296
CommitToBytes ==
    /\ command = "commit"
    /\ pc = "edit"
    /\ out_bytes' = CommitEditable_to_bytes(editable)
    /\ pc' = "done"
    /\ UNCHANGED <<commit_bytes, editable, command>>
    /\ UNCHANGED <<objects, refs, commits, processed_commits, parents_seen, emitted,
                   mappings, rewritten_commits, commit_trees, skipped, written>>
    /\ UNCHANGED <<removeVars, refVars, runVars, deltaVars, matchVars>>

InitCommit ==
    /\ commit_bytes \in Payloads
    /\ editable = <<>>
    /\ out_bytes = <<>>
    /\ objects = {}
    /\ refs = <<>>
    /\ IterInit
    /\ PipelineIdle
    /\ RunIdle
    /\ DeltaIdle
    /\ MatchIdle
    /\ command = "commit"
    /\ pc = "parse"

NextCommit ==
    \/ CommitCreate
    \/ CommitSetAuthor
    \/ CommitSetCommitter
    \/ CommitSetParent
    \/ CommitSetTree
    \/ CommitToBytes

SpecCommit == InitCommit /\ [][NextCommit]_vars

\* every override holds the value parsed from the payload
OverridesEqualParsed ==
    editable.author # <<>> =>
        editable.author[1] = CommitBase_get_str(editable.base, editable.base.author)

MaxPatterns == 2

\* the patterns: absolute, *suffix, prefix* and relative names
DirPatterns ==
    {<<"/", "a">>, <<"/", "a", "/">>, <<"/", "a", "/", "b">>, <<"/", "a", "b", "/">>,
     <<"*", "a">>, <<"*", "a", "/">>, <<"*", "/", "a">>, <<"*", "b", "/", "a">>,
     <<"a", "*">>, <<"/", "a", "*">>, <<"/", "a", "/", "b", "*">>, <<"a">>,
     <<"b", "/">>, <<"a", "/", "b">>, <<"a", "b">>}

FilePatterns ==
    {<<"/", "a">>, <<"/", "a", "/", "b">>, <<"/", "b", "/", "a", "b">>, <<"a">>,
     <<"a", "b">>, <<"*", "a">>, <<"*", "b">>, <<"*", "/", "a">>,
     <<"*", "a", "/", "b">>, <<"*", "/", "a", "/", "b">>, <<"a", "*">>, <<"b", "*">>,
     <<"/", "a", "*">>, <<"/", "a", "/", "a", "*">>, <<"/", "b", "/", "*">>}

\* remove.rs:171 and 319: the full path of a directory starts with the root /
\* and ends with /
DirPaths ==
    {<<"/", "a", "/">>, <<"/", "b", "/">>, <<"/", "a", "b", "/">>,
     <<"/", "b", "a", "/">>, <<"/", "a", "/", "a", "/">>, <<"/", "a", "/", "b", "/">>,
     <<"/", "b", "/", "a", "/">>, <<"/", "b", "/", "b", "/">>,
     <<"/", "a", "/", "a", "b", "/">>, <<"/", "a", "b", "/", "a", "/">>,
     <<"/", "a", "/", "b", "/", "a", "/">>, <<"/", "b", "/", "a", "/", "b", "/">>}

\* remove.rs:319 and 171: the path before a file
PathPrefixes ==
    {<<"/">>, <<"/", "a", "/">>, <<"/", "b", "/">>, <<"/", "a", "b", "/">>,
     <<"/", "b", "a", "/">>, <<"/", "a", "/", "a", "/">>, <<"/", "a", "/", "b", "/">>,
     <<"/", "b", "/", "a", "/">>, <<"/", "b", "/", "b", "/">>}

\* the file names of tree lines
FileNames ==
    {<<"a">>, <<"b">>, <<"a", "b">>, <<"b", "a">>, <<"a", "a", "b">>}

\* the path or pattern without its trailing slash
WithoutTrailingSlash(p) ==
    IF p # <<>> /\ p[Len(p)] = "/" THEN SubSeq(p, 1, Len(p) - 1) ELSE p

\* the documented rule of one directory pattern
DocumentedDirRule(pattern, path) ==
    IF Head(pattern) = "*"
    THEN \E k \in 0..Len(path) :
            /\ SubSeq(path, k + 1, Len(path)) = WithoutTrailingSlash(Tail(pattern)) \o <<"/">>
    ELSE IF pattern[Len(pattern)] = "*"
    THEN \E rest \in 0..Len(path) :
            SubSeq(pattern, 1, Len(pattern) - 1) \o SubSeq(path, Len(path) - rest + 1, Len(path))
                = path
    ELSE IF Head(pattern) = "/"
    THEN path = WithoutTrailingSlash(pattern) \o <<"/">>
    ELSE \E k \in 0..Len(path) :
            SubSeq(path, k + 1, Len(path))
                = <<"/">> \o WithoutTrailingSlash(pattern) \o <<"/">>

\* the documented rule of one file pattern
DocumentedFileRule(pattern, path_prefix, name) ==
    LET slashes == {k \in 1..Len(pattern) : pattern[k] = "/"}
        cut == IF slashes = {} THEN 0 ELSE CHOOSE k \in slashes : \A j \in slashes : j <= k
        dir == SubSeq(pattern, 1, cut)
        base == SubSeq(pattern, cut + 1, Len(pattern))
    IN  IF Head(pattern) = "*"
        THEN IF slashes = {}
             THEN \E k \in 0..Len(name) : SubSeq(name, k + 1, Len(name)) = Tail(pattern)
             ELSE /\ \E k \in 0..Len(path_prefix) :
                        SubSeq(path_prefix, k + 1, Len(path_prefix)) = Tail(dir)
                  /\ name = base
        ELSE IF pattern[Len(pattern)] = "*"
        THEN /\ slashes # {} => path_prefix = dir
             /\ \E k \in 0..Len(name) :
                    SubSeq(name, 1, k) = SubSeq(base, 1, Len(base) - 1)
        ELSE IF Head(pattern) = "/"
        THEN path_prefix \o name = pattern
        ELSE name = pattern

\* remove.rs:397-429: should_delete of a directory path
MatchFolder ==
    /\ command = "match"
    /\ pc = "built"
    /\ \E path \in DirPaths :
         /\ match_path' = path
         /\ match_name' = <<>>
         /\ match_result' = <<build_folder_delete_patterns(patterns.directories, path)>>
    /\ pc' = "matched"
    /\ UNCHANGED command
    /\ UNCHANGED <<objects, refs, commits, processed_commits, parents_seen, emitted,
                   mappings, rewritten_commits, commit_trees, skipped, written>>
    /\ UNCHANGED <<removeVars, refVars, runVars, deltaVars, commitVars>>

\* remove.rs:431-475: should_delete of a path and a file name
MatchFile ==
    /\ command = "match"
    /\ pc = "built"
    /\ \E path \in PathPrefixes, name \in FileNames :
         /\ match_path' = path
         /\ match_name' = name
         /\ match_result' = <<build_file_delete_patterns(patterns.files, path, name)>>
    /\ pc' = "matched"
    /\ UNCHANGED command
    /\ UNCHANGED <<objects, refs, commits, processed_commits, parents_seen, emitted,
                   mappings, rewritten_commits, commit_trees, skipped, written>>
    /\ UNCHANGED <<removeVars, refVars, runVars, deltaVars, commitVars>>

InitMatch ==
    /\ \E directories \in SeqsUpTo(DirPatterns, MaxPatterns),
          files \in SeqsUpTo(FilePatterns, MaxPatterns) :
         /\ directories = <<>> \/ files = <<>>
         /\ patterns = [NoPatterns EXCEPT !.directories = directories, !.files = files]
    /\ rewritten_trees = EmptyMap
    /\ written_trees = {}
    /\ pending = {}
    /\ next_index = 0
    /\ chan = <<>>
    /\ heap = {}
    /\ commit_index = 0
    /\ finalized = <<>>
    /\ RefsIdle
    /\ mappings = EmptyMap
    /\ rewritten_commits = EmptyMap
    /\ commit_trees = EmptyMap
    /\ skipped = {}
    /\ written = {}
    /\ objects = {}
    /\ refs = <<>>
    /\ IterInit
    /\ RunIdle
    /\ DeltaIdle
    /\ CommitIdle
    /\ MatchIdle
    /\ command = "match"
    /\ pc = "built"

NextMatch ==
    \/ MatchFolder
    \/ MatchFile

SpecMatch == InitMatch /\ [][NextMatch]_vars

(***************************************************************************)
(* C20: the removal predicates are the disjunction, over the patterns      *)
(* given, of the documented rule of each pattern: for a directory path     *)
(* (with trailing slash) the rules of /abs/path, *suffix, prefix* and a    *)
(* relative name; for a path prefix and a file name the rules of           *)
(* /abs/path/file, name, *suffix, *mid/name, prefix* and /dir/prefix*.     *)
(***************************************************************************)
PredicatesAreDocumentedRules ==
    (command = "match" /\ match_result # <<>>) =>
        IF match_name = <<>>
        THEN match_result[1] =
                (\E k \in 1..Len(patterns.directories) :
                    DocumentedDirRule(patterns.directories[k], match_path))
        ELSE match_result[1] =
                (\E k \in 1..Len(patterns.files) :
                    DocumentedFileRule(patterns.files[k], match_path, match_name))

\* a directory was matched by the second of two patterns only, a relative
\* name below the root
C20_Witness ==
    /\ command = "match"
    /\ match_name = <<>>
    /\ match_result = <<TRUE>>
    /\ Len(patterns.directories) = 2
    /\ Head(patterns.directories[2]) \notin {"*", "/"}
    /\ ~FolderRule(patterns.directories[1], match_path)
    /\ Len(match_path) > Len(patterns.directories[2]) + 2

(***************************************************************************)
(* The topological iterator with its consumer: the for loop over           *)
(* commits_topo calls next() again until it returns None.                  *)
(***************************************************************************)
SpecTopoLive == InitTopo /\ [][NextTopo]_vars /\ WF_vars(TopoNext)

\* the commits reachable from the seeds
ReachableFromRefs == UNION {Ancestors(refs[k].hash) : k \in 1..Len(refs)}

\* s holds every element of S once and nothing else
ExactlyOnce(s, S) ==
    /\ Range(s) = S
    /\ \A i, j \in 1..Len(s) : s[i] = s[j] => i = j

\* popping an unprocessed commit without parents returns it
RootReturnedOnFirstPop ==
    (/\ pc = "iterate"
     /\ commits # <<>>
     /\ commits[Len(commits)] \notin processed_commits
     /\ commits[Len(commits)].parents = <<>>)
        => /\ emitted' = Append(emitted, commits[Len(commits)])
           /\ commits' = SubSeq(commits, 1, Len(commits) - 1)

(***************************************************************************)
(* C21: on every finite commit DAG the topological iterator terminates     *)
(* (next() eventually returns None) and has then returned every commit     *)
(* reachable from the ref seeds exactly once; no commit is ever returned   *)
(* twice, and a commit without parents is returned the first time it is    *)
(* popped.                                                                 *)
(***************************************************************************)
TopoTerminatesExactlyOnce ==
    /\ <>(pc = "done")
    /\ [](pc = "done" => ExactlyOnce(emitted, ReachableFromRefs))
    /\ [](\A i, j \in 1..Len(emitted) : emitted[i] = emitted[j] => i = j)
    /\ [][RootReturnedOnFirstPop]_vars

\* the iterator has ended on a repository with two root commits and a merge,
\* seeded by two refs
C21_Witness ==
    /\ command = "topo"
    /\ pc = "done"
    /\ Len(refs) = 2
    /\ refs[1].hash # refs[2].hash
    /\ Cardinality({c \in Range(emitted) : c.parents = <<>>}) = 2
    /\ \E c \in Range(emitted) : Len(c.parents) = 2
    /\ ExactlyOnce(emitted, ReachableFromRefs)

(***************************************************************************)
(* src/commits.rs: CommitsLifoIter, and src/commit_walker.rs: CommitWalker.*)
(* Both keep the stack in commits and the returned commits in              *)
(* processed_commits; parents_seen is not used.                            *)
(***************************************************************************)
\* a variant that pushes the first parent only
LifoParentsFirst(c, processed) ==
    IF c.parents = <<>> THEN <<>>
    ELSE SelectSeq(<<c.parents[1]>>, LAMBDA p : p \notin processed /\ p \in objects)

\* commits.rs:152-166: the parents pushed: not processed and found by
\* read_object_from_hash
LifoParents(c, processed) ==
    SelectSeq(c.parents, LAMBDA p : p \notin processed /\ p \in objects)

\* commit_walker.rs:62-74: the parents pushed: found by read_object_from_hash
WalkerParents(c) == SelectSeq(c.parents, LAMBDA p : p \in objects)

\* commits.rs:149-173: CommitsLifoIter::next
RECURSIVE LifoNextOf(_, _)
LifoNextOf(stack, processed) ==
    IF stack = <<>>
    THEN [ret |-> <<>>, commits |-> stack, processed |-> processed, seen |-> parents_seen]
    ELSE LET c == stack[Len(stack)]
             rest == SubSeq(stack, 1, Len(stack) - 1)
         IN  IF c \notin processed
             THEN [ret |-> <<c>>,
                   commits |-> rest \o LifoParents(c, processed \cup {c}),
                   processed |-> processed \cup {c}, seen |-> parents_seen]
             ELSE LifoNextOf(rest, processed)

\* commit_walker.rs:59-81: CommitWalker::next
RECURSIVE WalkerNextOf(_, _)
WalkerNextOf(stack, processed) ==
    IF stack = <<>>
    THEN [ret |-> <<>>, commits |-> stack, processed |-> processed, seen |-> parents_seen]
    ELSE LET c == stack[Len(stack)]
             rest == SubSeq(stack, 1, Len(stack) - 1)
         IN  IF c \notin processed
             THEN [ret |-> <<c>>, commits |-> rest \o WalkerParents(c),
                   processed |-> processed \cup {c}, seen |-> parents_seen]
             ELSE WalkerNextOf(rest, processed)

\* one next() call of the loop over commits_lifo
LifoNext ==
    /\ command = "lifo"
    /\ pc = "iterate"
    /\ LET r == LifoNextOf(commits, processed_commits) IN
         /\ IterAdvance(r)
         /\ pc' = IF r.ret = <<>> THEN "done" ELSE "iterate"
    /\ UNCHANGED <<objects, refs, mappings, rewritten_commits, commit_trees,
                   skipped, written, command>>
    /\ UNCHANGED <<removeVars, refVars, runVars, pureVars>>

\* one next() call of the loop over a CommitWalker
WalkerNext ==
    /\ command = "walker"
    /\ pc = "iterate"
    /\ LET r == WalkerNextOf(commits, processed_commits) IN
         /\ IterAdvance(r)
         /\ pc' = IF r.ret = <<>> THEN "done" ELSE "iterate"
    /\ UNCHANGED <<objects, refs, mappings, rewritten_commits, commit_trees,
                   skipped, written, command>>
    /\ UNCHANGED <<removeVars, refVars, runVars, pureVars>>

InitLifo ==
    /\ \E sh \in Shapes(MaxCommits) : objects = Repo(sh, TopoAttrs)
    /\ refs \in RefSeqs(objects)
    /\ IterInit
    /\ PipelineIdle
    /\ RunIdle
    /\ PureIdle
    /\ command \in {"lifo", "walker"}
    /\ pc = "iterate"

NextLifo ==
    \/ LifoNext
    \/ WalkerNext

SpecLifo == InitLifo /\ [][NextLifo]_vars

(***************************************************************************)
(* C22: the LIFO iterator (CommitsLifoIter and the older CommitWalker)     *)
(* returns every commit reachable from any ref exactly once: no commit is  *)
(* returned twice, and when next() has returned None every reachable       *)
(* commit was returned, also the commits reachable through several         *)
(* children or several refs.                                               *)
(***************************************************************************)
LifoExactlyOnce ==
    command \in {"lifo", "walker"} =>
        /\ Range(emitted) \subseteq ReachableFromRefs
        /\ Cardinality(Range(emitted)) = Len(emitted)
        /\ pc = "done" => Range(emitted) = ReachableFromRefs

\* the iterator has ended on a repository in which two refs point at the
\* same commit and a commit is the parent of two returned commits
C22_Witness ==
    /\ command \in {"lifo", "walker"}
    /\ pc = "done"
    /\ Len(refs) = 2
    /\ refs[1].hash = refs[2].hash
    /\ \E a, b \in Range(emitted) :
         /\ a # b
         /\ Range(a.parents) \cap Range(b.parents) # {}
    /\ Range(emitted) = ReachableFromRefs

(***************************************************************************)
(* C27: the LIFO iterator returns children before parents: no returned     *)
(* commit has a parent that was returned before it.                        *)
(***************************************************************************)
LifoChildrenBeforeParents ==
    command = "lifo" =>
        \A i \in 1..Len(emitted) :
            \A p \in Range(emitted[i].parents) :
                \A j \in 1..(i - 1) : emitted[j] # p

(***************************************************************************)
(* src/remove.rs: remove on repositories of up to OrderCommits commits, so *)
(* that the orderer's heap holds several commits at a time.                *)
(***************************************************************************)
OrderCommits == 3

\* the root tree is x alone or the directory a holding x
OrderAttrs ==
    [tree : {Tx, TreeFromLines(<<DirLine("a", Tx)>>)}, author : {"alice"},
     author_time : {"1 +0000"}, committer : {"alice"}, committer_time : {"2 +0100"},
     remainder : {"msg"}]

InitOrder ==
    /\ objects \in Repos(OrderCommits, OrderAttrs)
    /\ refs \in PipeRefSeqs(objects)
    /\ IterInit
    /\ patterns \in {NoPatterns, [NoPatterns EXCEPT !.files = << <<"/", "a", "/", "x">> >>]}
    /\ RefsIdle
    /\ rewritten_trees = EmptyMap
    /\ written_trees = {}
    /\ pending = {}
    /\ next_index = 0
    /\ chan = <<>>
    /\ heap = {}
    /\ commit_index = 0
    /\ finalized = <<>>
    /\ mappings = EmptyMap
    /\ rewritten_commits = EmptyMap
    /\ commit_trees = EmptyMap
    /\ skipped = {}
    /\ written = {}
    /\ command = "remove"
    /\ pc = "iterate"
    /\ RunIdle
    /\ PureIdle

SpecOrder == InitOrder /\ [][NextRemove]_vars

(***************************************************************************)
(* C23: for every order in which the workers deliver their OrderedCommits, *)
(* the orderer finalizes the commits in index order 0, 1, ..., which is    *)
(* the order the iterator returned them in, each commit once; when the     *)
(* channel is closed and empty no commit is left in the heap and every     *)
(* commit has been finalized.                                              *)
(***************************************************************************)
OrdererFinalizesInIndexOrder ==
    command = "remove" =>
        /\ commit_index = Len(finalized)
        /\ Len(finalized) <= Len(emitted)
        /\ finalized = SubSeq(emitted, 1, Len(finalized))
        /\ \A oc \in heap : oc.index > commit_index /\ oc.commit = emitted[oc.index + 1]
        /\ pc = "done" => heap = {} /\ finalized = emitted

\* the commits of index 1 and 2 were delivered before the commit of index 0
\* and wait in the heap
C23_Witness ==
    /\ command = "remove"
    /\ commit_index = 0
    /\ {oc.index : oc \in heap} = {1, 2}
    /\ \E oc \in pending : oc.index = 0

\* rewritten_trees after update_tree was called on the trees of the commits
\* cs[k], cs[k + 1], ... one after the other
RECURSIVE TreesInOrder(_, _, _)
TreesInOrder(cs, k, memo) ==
    IF k > Len(cs) THEN memo
    ELSE TreesInOrder(cs, k + 1,
                      update_tree(cs[k].tree, <<"/">>, patterns, memo, {}).rewritten_trees)

(***************************************************************************)
(* C24: memoized tree rewriting is deterministic under parallelism: for    *)
(* every interleaving of the workers rewritten_trees ends with the entries *)
(* that rewriting the trees in the order of the iterator stores.           *)
(***************************************************************************)
TreeMemoDeterministic ==
    (command = "remove" /\ pc = "done") =>
        rewritten_trees = TreesInOrder(emitted, 1, EmptyMap)

(***************************************************************************)
(* crates/gitrwlib/src/packreader.rs: read_git_object_bytes on a pack      *)
(* whose entries are a plain object and deltas above it.  An entry is      *)
(* named by its position in the pack, which stands for its offset and,     *)
(* for the base of a REF_DELTA, for its OID.                               *)
(***************************************************************************)
MaxPackChain == 2

\* the type codes of the pack entries
ObjectTypes == {1, 2, 3, 4}
OFS_DELTA == 6
REF_DELTA == 7

\* compression.rs:53-69: the deflate stream of a plain entry starts right
\* after its header; what stands there in a delta entry (the base OID of a
\* REF_DELTA) is no deflate stream, and deflate_decompress(..).unwrap() panics
unpack(pack_object) ==
    IF pack_object.object_type \in ObjectTypes THEN pack_object.content ELSE <<"panic">>

\* pack_diff.rs: PackDiff::create, the delta of an OFS_DELTA entry
PackDiff_create(pack_object) ==
    [target_len      |-> pack_object.diff.target_len,
     negative_offset |-> pack_object.diff.negative_offset,
     instructions    |-> pack_object.diff.instructions]

\* PackDiff::create_for_ref, the delta of a REF_DELTA entry: the
\* instructions that follow the 20 bytes of the base OID
PackDiff_create_for_ref(pack_object) ==
    [target_len      |-> pack_object.diff.target_len,
     negative_offset |-> 0,
     instructions    |-> pack_object.diff.instructions]

\* packreader.rs:143-148: the loop over the OFS_DELTA entries below
RECURSIVE RestoreLoop(_, _, _)
RestoreLoop(entries, diff, at) ==
    IF entries[at].object_type = OFS_DELTA
    THEN LET combined == combine(diff, PackDiff_create(entries[at]))
         IN  RestoreLoop(entries, combined, at - combined.negative_offset)
    ELSE [pack_diff |-> diff, at |-> at]

\* packreader.rs:136-153
restore_diff_object_bytes(entries, at) ==
    LET first == PackDiff_create(entries[at])
        loop == RestoreLoop(entries, first, at - first.negative_offset)
        base_content == unpack(entries[loop.at])
    IN  IF base_content = <<"panic">>
        THEN [bytes |-> <<"panic">>, object_type |-> entries[loop.at].object_type]
        ELSE [bytes |-> apply(loop.pack_diff, base_content),
              object_type |-> entries[loop.at].object_type]

\* packreader.rs:99-133: the pair of the bytes and the type of the PackObject
RECURSIVE read_git_object_bytes(_, _)
read_git_object_bytes(entries, at) ==
    IF entries[at].object_type = OFS_DELTA
    THEN restore_diff_object_bytes(entries, at)
    ELSE IF entries[at].object_type = REF_DELTA
    THEN LET base == read_git_object_bytes(entries, entries[at].base) IN
         IF base.bytes = <<"panic">> THEN base
         ELSE [bytes |-> apply(PackDiff_create_for_ref(entries[at]), base.bytes),
               object_type |-> base.object_type]
    ELSE [bytes |-> unpack(entries[at]), object_type |-> entries[at].object_type]

\* the payload of entry at: every delta applied to the payload of its base
RECURSIVE PackOutput(_)
PackOutput(at) ==
    IF pack[at].object_type \in ObjectTypes THEN pack[at].content
    ELSE apply(pack[at].diff, PackOutput(at - 1))

\* the packs of at most k more deltas above the entries prefix, the payload
\* of the last of which is bytes: each delta, OFS_DELTA or REF_DELTA, has
\* the entry right below it as its base
RECURSIVE PackAbove(_, _, _)
PackAbove(prefix, bytes, k) ==
    \/ Len(prefix) > 1 /\ pack = prefix
    \/ /\ k > 0
       /\ \E d \in DeltasOf[Len(bytes)], t \in {OFS_DELTA, REF_DELTA} :
            PackAbove(Append(prefix, [object_type |-> t, diff |-> d, base |-> Len(prefix)]),
                      apply(d, bytes), k - 1)

\* packreader.rs:99-133: the topmost entry of the pack is read
PackRead ==
    /\ command = "read"
    /\ pc = "read"
    /\ read_result' = read_git_object_bytes(pack, Len(pack))
    /\ pc' = "done"
    /\ UNCHANGED <<delta_base, delta_chain, pack_diff, chain_index, content, pack, idxVars, command>>
    /\ UNCHANGED <<objects, refs, commits, processed_commits, parents_seen, emitted,
                   mappings, rewritten_commits, commit_trees, skipped, written>>
    /\ UNCHANGED <<removeVars, refVars, runVars, commitVars, matchVars>>

InitPack ==
    /\ \E t \in ObjectTypes :
         PackAbove(<<[object_type |-> t, content |-> BaseBytes]>>, BaseBytes, MaxPackChain)
    /\ read_result = <<>>
    /\ IdxIdle
    /\ delta_base = <<>>
    /\ delta_chain = <<>>
    /\ pack_diff = <<>>
    /\ chain_index = 0
    /\ content = <<>>
    /\ objects = {}
    /\ refs = <<>>
    /\ IterInit
    /\ PipelineIdle
    /\ RunIdle
    /\ CommitIdle
    /\ MatchIdle
    /\ command = "read"
    /\ pc = "read"

NextPack == PackRead

SpecPack == InitPack /\ [][NextPack]_vars

(***************************************************************************)
(* C25: for an entry stored as a delta, through any chain of OFS_DELTA and *)
(* REF_DELTA bases in any order, the reader returns the payload got by     *)
(* applying the deltas in order to the plain base object, and reports the  *)
(* object type of that base, never the type code of a delta.               *)
(***************************************************************************)
DeltaReadReturnsBase ==
    (command = "read" /\ pc = "done") =>
        /\ read_result.bytes = PackOutput(Len(pack))
        /\ read_result.object_type = pack[1].object_type

(***************************************************************************)
(* The end of a run, from the join of the writer threads on: the ref       *)
(* update and the map file, on repositories whose refs point at commits,   *)
(* trees and annotated tags.                                               *)
(***************************************************************************)
InitDry ==
    /\ command \in {"contributor", "prune-empty", "remove"}
    /\ pc = "joined"
    /\ dry_run \in BOOLEAN
    /\ objects = RefTargets
    /\ \E files \in UNION {[D -> RefTargets] : D \in SUBSET RefNameSet} :
         /\ ref_files = files
         /\ \E o \in Listings(DOMAIN files) :
              loose_refs = [k \in 1..Len(o) |-> [name |-> o[k], hash |-> files[o[k]]]]
         /\ ref_dirs = {n.dir : n \in DOMAIN files}
    /\ packed_refs = <<>>
    /\ rewritten_commits \in RewrittenMaps
    /\ ref_index = 0
    /\ refs = <<>>
    /\ commits = <<>>
    /\ processed_commits = {}
    /\ parents_seen = {}
    /\ emitted = <<>>
    /\ RemoveIdle
    /\ mappings = EmptyMap
    /\ commit_trees = EmptyMap
    /\ skipped = {}
    /\ written = {}
    /\ wchan = <<>>
    /\ writers = WritersIdle
    /\ object_files = EmptyMap
    /\ map_file = <<>>
    /\ PureIdle

NextDry == UpdateRefs \/ WriteMapFile

SpecDry == InitDry /\ [][NextDry]_vars

\* GitRef::update, as a run without --dry-run calls it, panics on the refs
\* of the repository
RealRunPanics ==
    /\ ~(command = "contributor" /\ rewritten_commits = EmptyMap)
    /\ GitRef_update([files |-> ref_files, dirs |-> ref_dirs, written |-> written,
                      panicked |-> FALSE],
                     read_all(get_loose_refs(ref_files, loose_refs), packed_refs),
                     rewritten_commits).panicked

(***************************************************************************)
(* C26: a dry run fails in the cases in which a real run fails: a dry run  *)
(* that got past the ref update without an error is a run on a repository  *)
(* on which the ref update of a real run raises no error either.           *)
(***************************************************************************)
DryRunFailsLikeRealRun ==
    (dry_run /\ pc \in {"refs-updated", "refs-skipped", "finished"}) => ~RealRunPanics

(***************************************************************************)
(* src/contributors.rs: rewrite run a second time, with the same mappings, *)
(* on the repository the first run left.                                   *)
(***************************************************************************)
\* contributors.rs:50-75: the loop over commits_topo() from the iterator
\* state on, as one function: the rewritten_commits it ends with
RECURSIVE ContribLoop(_, _, _, _)
ContribLoop(stack, processed, seen, rewritten) ==
    LET r == FifoNext(stack, processed, seen) IN
    IF r.ret = <<>> THEN rewritten
    ELSE LET e == ContribEdit(r.ret[1], mappings, rewritten) IN
         ContribLoop(r.commits, r.processed, r.seen,
                     IF has_changes(e)
                     THEN Insert(rewritten, r.ret[1], WriteObject(e).hash)
                     ELSE rewritten)

\* contributors.rs:41-83: the second run, from get_mappings to the map file
ContribAgain ==
    /\ command = "contributor"
    /\ pc = "finished"
    /\ \E o \in Listings(DOMAIN ref_files) :
         LET listing == [k \in 1..Len(o) |-> [name |-> o[k]]]
             rs == read_all(get_loose_refs(ref_files, listing), packed_refs)
             rewritten == ContribLoop(Seeds(rs), {}, {}, EmptyMap)
             disk == [files |-> ref_files, dirs |-> ref_dirs, written |-> written,
                      panicked |-> FALSE]
             st == IF rewritten = EmptyMap THEN disk
                   ELSE Repository_update_refs(disk, rs, rewritten, dry_run)
         IN  /\ rewritten_commits' = rewritten
             /\ written' = st.written \cup {rewritten[c] : c \in DOMAIN rewritten}
             /\ object_files' = Repository_write(object_files,
                                                 {rewritten[c] : c \in DOMAIN rewritten},
                                                 dry_run)
             /\ ref_files' = st.files
             /\ ref_dirs' = st.dirs
             /\ map_file' = IF rewritten = EmptyMap THEN map_file
                            ELSE write_rewritten_commits_file(map_file, rewritten, dry_run)
    /\ pc' = "finished-again"
    /\ UNCHANGED <<objects, refs, commits, processed_commits, parents_seen, emitted,
                   mappings, commit_trees, skipped, loose_refs, packed_refs, ref_index,
                   dry_run, wchan, writers, command>>
    /\ UNCHANGED <<removeVars, pureVars>>

\* the refs of the repository are entries of the packed-refs file, sorted by name
RefsPacked(rs) ==
    /\ loose_refs = <<>>
    /\ ref_files = EmptyMap
    /\ ref_dirs = {}
    /\ packed_refs = [k \in 1..Len(rs) |-> [name |-> RefPath(rs[k].name), hash |-> rs[k].hash]]
    /\ ref_index = 0

InitTwice ==
    /\ command = "contributor"
    /\ objects \in Repos(RunCommits, RunContribAttrs)
    /\ mappings \in MappingSets
    /\ patterns = NoPatterns
    /\ refs \in PipeRefSeqs(objects)
    /\ IterInit
    /\ RefsOnDisk(refs) \/ RefsPacked(refs)
    /\ dry_run = FALSE
    /\ wchan = <<>>
    /\ writers = WritersIdle
    /\ object_files = EmptyMap
    /\ map_file = <<>>
    /\ rewritten_commits = EmptyMap
    /\ commit_trees = EmptyMap
    /\ skipped = {}
    /\ written = {}
    /\ rewritten_trees = EmptyMap
    /\ written_trees = {}
    /\ pending = {}
    /\ next_index = 0
    /\ chan = <<>>
    /\ heap = {}
    /\ commit_index = 0
    /\ finalized = <<>>
    /\ pc = "iterate"
    /\ PureIdle

NextTwice ==
    \/ ContribStep
    \/ WriterTake
    \/ WriterOpen
    \/ WriterWrite
    \/ JoinWriters
    \/ UpdateRefs
    \/ WriteMapFile
    \/ ContribAgain

SpecTwice == InitTwice /\ [][NextTwice]_vars

\* M(M(x)) = x for every key x
Involutive(m) == \A k \in DOMAIN m : m[k] \in DOMAIN m /\ m[m[k]] = k

\* no value of M is a key of M
IdentityClosed(m) == \A k \in DOMAIN m : m[k] \notin DOMAIN m

(***************************************************************************)
(* C28: contributor rewrite is idempotent under the same mapping M: when M *)
(* is involutive or identity-closed, the second run rewrites no commit and *)
(* leaves every ref as the first run left it.                              *)
(***************************************************************************)
SecondRunRewritesNothing ==
    [][(/\ pc = "finished"
        /\ pc' = "finished-again"
        /\ Involutive(mappings) \/ IdentityClosed(mappings))
          => /\ rewritten_commits' = EmptyMap
             /\ ref_files' = ref_files]_vars

(***************************************************************************)
(* src/idx_reader.rs: get_pack_offsets.  A byte is a number in 0..255; a   *)
(* usize is written as its four 16-bit limbs, the most significant first.  *)
(* The OID of the i-th entry of the index is i.                            *)
(***************************************************************************)
MaxIdxObjects == 2

\* idx_reader.rs:88-91
msb_set(pack_offset) == (pack_offset[1] \div 128) % 2 # 0

\* `as usize` of a value below 2^31
as_usize(n) == <<0, 0, n \div 65536, n % 65536>>

\* idx_reader.rs:51-54: the offset read from the low 31 bits of a 4-byte slot
slot_offset(pack_offset) ==
    as_usize(pack_offset[4] + pack_offset[3] * 256 + pack_offset[2] * 65536
             + (pack_offset[1] % 128) * 16777216)

\* <[u8]>::reverse
reverse(bytes) == [i \in 1..Len(bytes) |-> bytes[Len(bytes) + 1 - i]]

\* usize::from_be_bytes of 8 bytes
usize_from_be_bytes(bytes) ==
    [l \in 1..4 |-> bytes[2 * l - 1] * 256 + bytes[2 * l]]

\* idx_reader.rs:72-83: one entry of the large-offset table
large_offset(bytes, endian) ==
    usize_from_be_bytes(IF endian = "little" THEN reverse(bytes) ELSE bytes)

\* the positions of s that satisfy Test, in increasing order
Positions(s, Test(_)) == SelectSeq([i \in 1..Len(s) |-> i], LAMBDA i : Test(s[i]))

\* idx_reader.rs:47-85: result holds the entries without the flag first, then
\* the flagged ones, each with the table entry read at its turn
get_pack_offsets(file, endian) ==
    LET small == Positions(file.slots, LAMBDA po : ~msb_set(po))
        large_offsets == Positions(file.slots, msb_set)
    IN  [k \in 1..Len(small) |->
            [hash |-> small[k], offset |-> slot_offset(file.slots[small[k]])]]
        \o [k \in 1..Len(large_offsets) |->
            [hash |-> large_offsets[k], offset |-> large_offset(file.large[k], endian)]]

\* 4-byte slots with the most significant bit clear
SmallSlots == {<<0, 0, 0, 12>>, <<0, 1, 2, 3>>, <<127, 255, 255, 255>>}

\* the 4-byte slot git writes for the k-th offset above 2^31 - 1
FlaggedSlot(k) == <<128, 0, 0, k - 1>>

\* 8-byte entries of the large-offset table
LargeEntries ==
    {<<0, 0, 0, 0, 128, 0, 0, 0>>, <<0, 0, 0, 1, 0, 0, 0, 2>>, <<1, 2, 3, 4, 5, 6, 7, 8>>}

\* the number of flagged slots among the first n
RECURSIVE FlaggedBefore(_, _)
FlaggedBefore(slots, n) ==
    IF n = 0 THEN 0
    ELSE FlaggedBefore(slots, n - 1) + (IF msb_set(slots[n]) THEN 1 ELSE 0)

\* the idx files git writes for up to MaxIdxObjects objects: the k-th flagged
\* slot holds k - 1 and the table has one entry per flagged slot
IdxFiles ==
    UNION {{[slots |-> s, large |-> t] :
              s \in {x \in [1..n -> SmallSlots \cup {FlaggedSlot(k) : k \in 1..n}] :
                       \A i \in 1..n :
                          msb_set(x[i]) => x[i] = FlaggedSlot(FlaggedBefore(x, i))},
              t \in UNION {[1..f -> LargeEntries] : f \in 0..n}}
           : n \in 0..MaxIdxObjects}

GetPackOffsets ==
    /\ command = "offsets"
    /\ pc = "open"
    /\ pack_offsets' = get_pack_offsets(idx, target_endian)
    /\ pc' = "done"
    /\ UNCHANGED <<delta_base, delta_chain, pack_diff, chain_index, content, pack,
                   read_result, idx, target_endian, command>>
    /\ UNCHANGED <<objects, refs, commits, processed_commits, parents_seen, emitted,
                   mappings, rewritten_commits, commit_trees, skipped, written>>
    /\ UNCHANGED <<removeVars, refVars, runVars, commitVars, matchVars>>

InitIdx ==
    /\ idx \in {f \in IdxFiles : Len(f.large) = FlaggedBefore(f.slots, Len(f.slots))}
    /\ target_endian \in {"little", "big"}
    /\ pack_offsets = <<>>
    /\ pack = <<>>
    /\ read_result = <<>>
    /\ delta_base = <<>>
    /\ delta_chain = <<>>
    /\ pack_diff = <<>>
    /\ chain_index = 0
    /\ content = <<>>
    /\ objects = {}
    /\ refs = <<>>
    /\ IterInit
    /\ PipelineIdle
    /\ RunIdle
    /\ CommitIdle
    /\ MatchIdle
    /\ command = "offsets"
    /\ pc = "open"

NextIdx == GetPackOffsets

SpecIdx == InitIdx /\ [][NextIdx]_vars

\* the value of bytes read as a big-endian unsigned integer, in 16-bit limbs
RECURSIVE BigEndianLimbs(_)
BigEndianLimbs(bytes) ==
    IF bytes = <<>> THEN <<>>
    ELSE <<bytes[1] * 256 + bytes[2]>> \o BigEndianLimbs(SubSeq(bytes, 3, Len(bytes)))

\* the 31-bit big-endian value of a 4-byte slot, in 16-bit limbs
Slot31(slot) == <<0, 0, (slot[1] % 128) * 256 + slot[2], slot[3] * 256 + slot[4]>>

(***************************************************************************)
(* C29: an entry whose 4-byte slot has the most significant bit set gets   *)
(* the value of the large-offset table entry of its rank among the flagged *)
(* entries, read as a big-endian unsigned integer; every other entry gets  *)
(* the 31-bit big-endian value of its slot.                                *)
(***************************************************************************)
OffsetsAreBigEndian ==
    (command = "offsets" /\ pc = "done") =>
        /\ {e.hash : e \in Range(pack_offsets)} = 1..Len(idx.slots)
        /\ Len(pack_offsets) = Len(idx.slots)
        /\ \A e \in Range(pack_offsets) :
             e.offset = IF msb_set(idx.slots[e.hash])
                        THEN BigEndianLimbs(idx.large[FlaggedBefore(idx.slots, e.hash)])
                        ELSE Slot31(idx.slots[e.hash])

(***************************************************************************)
(* C30: during empty-commit prune the lookup commit_trees[resolved parent] *)
(* of parent_if_empty never misses: the resolved parent of a single-parent *)
(* commit being visited is a key of commit_trees, every commit visited     *)
(* before is kept (its final OID is a key of commit_trees) or pruned (it   *)
(* maps to a key of commit_trees), and no value of rewritten_commits is a  *)
(* key of rewritten_commits.                                               *)
(***************************************************************************)
PruneLookupNeverMisses ==
    command = "prune-empty" =>
        /\ pc # "panicked"
        /\ (pc = "iterate" /\ IterResult.ret # <<>>) =>
              ~TreeLookupMisses(IterResult.ret[1], rewritten_commits, commit_trees)
        /\ \A c \in Range(emitted) :
              GetOr(rewritten_commits, c) \in DOMAIN commit_trees
        /\ \A c \in DOMAIN rewritten_commits :
              rewritten_commits[c] \notin DOMAIN rewritten_commits

\* a single-parent commit is about to be visited whose parent was pruned: the
\* lookup goes through rewritten_commits
C30_Witness ==
    /\ command = "prune-empty" /\ pc = "iterate"
    /\ IterResult.ret # <<>>
    /\ LET c == IterResult.ret[1] IN
         /\ PruneCandidate(c)
         /\ c.parents[1] \in skipped
         /\ ResolvedParent(c, rewritten_commits) # c.parents[1]
         /\ ResolvedParent(c, rewritten_commits) \in DOMAIN commit_trees

====
